---------------------------- MODULE Spec2Model ----------------------------
(***************************************************************************)
(* Model of the reconciliation engine of clean-sheet-bot.                  *)
(*                                                                         *)
(*   scripts/dcqa_brand_two_pass.py  norm, build_index, detect_from_titles,*)
(*                                   two_pass_brand                        *)
(*   scripts/run_cleaning.py         qa_event, the mapping stages, the FX  *)
(*                                   stage and the plans pipeline          *)
(*                                                                         *)
(* Text is modelled by TLA+ strings, which TLC treats as sequences of      *)
(* characters.  TLA+ strings are ASCII, so three non-ASCII characters the  *)
(* normaliser treats specially are written with ASCII characters that the  *)
(* normaliser otherwise leaves alone: see TM, NBSP and EACUTE.             *)
(***************************************************************************)
EXTENDS Integers, Sequences, FiniteSets, TLC

VARIABLES
    \* ---- two_pass_brand (dcqa_brand_two_pass.py) ----
    tax,         \* brands_df: the taxonomy rows, in table order
    idx,         \* the alias index, a dict in insertion order
    canon_list,  \* sorted(canons)
    bpc,         \* position in two_pass_brand: "idle" | "start" | "loop" | "row"
    res,         \* the result row appended by the latest loop iteration
    \* ---- process_plans and its stages (run_cleaning.py) ----
    df,          \* the frame being cleaned: its rows in order, each with its index label
    prev,        \* the frame as the latest stage received it
    qa,          \* the exception ledger, a list of qa_event dicts
    ref,         \* the reference tables read from the taxonomy directory
    stage,       \* the latest stage that ran, or "aborted" when it raised
    frames,      \* the cleaned frames of the files already processed
    \* ---- the daily expanders (split_daily_budgets.py, split_daily_plans.py) ----
    xpc,         \* the expander running (prog) and where it is: at "loop", "written", "aborted"
    sdf,         \* the expander's df: the sheet's rows, dates coerced
    xix,         \* the position of the loop over sdf
    out_rows,    \* the rows emitted so far
    \* ---- norm (dcqa_brand_two_pass.py) applied on its own ----
    nin,         \* the value norm is given
    nout         \* the results so far: norm(nin), then norm of that

brandVars == <<tax, idx, canon_list, bpc, res>>
pipeVars == <<df, prev, qa, ref, stage, frames>>
splitVars == <<xpc, sdf, xix, out_rows>>
normVars == <<nin, nout>>
vars == <<tax, idx, canon_list, bpc, res, df, prev, qa, ref, stage, frames,
          xpc, sdf, xix, out_rows, nin, nout>>

-----------------------------------------------------------------------------
(* Characters and strings                                                  *)

TM     == "$"   \* stands for U+2122, the trademark sign
NBSP   == ">"   \* stands for U+00A0, the no-break space
EACUTE == "<"   \* stands for U+00E9, e with acute accent

UpperChars == "ABCDEFGHIJKLMNOPQRSTUVWXYZ"
LowerChars == "abcdefghijklmnopqrstuvwxyz"
\* the characters of _PUNCT that the model's texts use
PunctChars == "-.,;:!/?()&_"

Ch(s, i) == SubSeq(s, i, i)

InStr(c, s) == \E i \in 1..Len(s) : Ch(s, i) = c

PosIn(c, s) == CHOOSE i \in 1..Len(s) : Ch(s, i) = c

\* Python's str.isspace() for the characters of the model
IsSpace(c) == c = " " \/ c = NBSP

\* s.translate(str.maketrans(_SPECIALS)), one character
SpecialsCh(c) == IF c = TM THEN "" ELSE IF c = NBSP THEN " " ELSE c

\* _strip_accents, one character: NFKD splits the letter from its combining
\* accent, and the combining character is dropped
StripAccentsCh(c) == IF c = EACUTE THEN "e" ELSE c

\* a translation that removes the punctuation
PunctChRemoved(c) == IF InStr(c, PunctChars) THEN "" ELSE c

\* s.translate(_PUNCT), one character
PunctCh(c) == IF InStr(c, PunctChars) THEN " " ELSE c

\* s.casefold(), one character
CasefoldCh(c) == IF InStr(c, UpperChars) THEN Ch(LowerChars, PosIn(c, UpperChars)) ELSE c

RECURSIVE _strip_accents(_)
_strip_accents(s) ==
    IF s = "" THEN "" ELSE StripAccentsCh(Head(s)) \o _strip_accents(Tail(s))

RECURSIVE TranslateSpecials(_)
TranslateSpecials(s) ==
    IF s = "" THEN "" ELSE SpecialsCh(Head(s)) \o TranslateSpecials(Tail(s))

RECURSIVE TranslatePunct(_)
TranslatePunct(s) ==
    IF s = "" THEN "" ELSE PunctCh(Head(s)) \o TranslatePunct(Tail(s))

RECURSIVE Casefold(_)
Casefold(s) ==
    IF s = "" THEN "" ELSE CasefoldCh(Head(s)) \o Casefold(Tail(s))

\* re.sub(r'\s+', ' ', s): every run of whitespace becomes one space
RECURSIVE CollapseSpaces(_)
CollapseSpaces(s) ==
    IF s = "" THEN ""
    ELSE IF IsSpace(Head(s))
         THEN IF Tail(s) # "" /\ IsSpace(Head(Tail(s)))
              THEN CollapseSpaces(Tail(s))
              ELSE " " \o CollapseSpaces(Tail(s))
         ELSE Head(s) \o CollapseSpaces(Tail(s))

RECURSIVE LStrip(_)
LStrip(s) == IF s # "" /\ IsSpace(Head(s)) THEN LStrip(Tail(s)) ELSE s

RECURSIVE RStrip(_)
RStrip(s) ==
    IF s # "" /\ IsSpace(Ch(s, Len(s))) THEN RStrip(SubSeq(s, 1, Len(s) - 1)) ELSE s

\* str.strip()
Strip(s) == RStrip(LStrip(s))

\* str.upper()
RECURSIVE Upper(_)
Upper(s) ==
    IF s = "" THEN ""
    ELSE (IF InStr(Head(s), LowerChars)
          THEN Ch(UpperChars, PosIn(Head(s), LowerChars))
          ELSE Head(s)) \o Upper(Tail(s))

\* norm(s); the model passes strings only, so the None branch is not taken
norm(s) ==
    Strip(CollapseSpaces(Casefold(TranslatePunct(_strip_accents(TranslateSpecials(s))))))

\* Python's `sub in t`
Contains(sub, t) ==
    \E i \in 1..(Len(t) - Len(sub) + 1) : SubSeq(t, i, i + Len(sub) - 1) = sub

\* Code-point order of the characters the model uses (ASCII order)
CodeOrder == " !$&(),-./0123456789:;<>?ABCDEFGHIJKLMNOPQRSTUVWXYZ_abcdefghijklmnopqrstuvwxyz"

\* Python's `a < b` on str
RECURSIVE StrLess(_, _)
StrLess(a, b) ==
    IF b = "" THEN FALSE
    ELSE IF a = "" THEN TRUE
    ELSE IF Head(a) = Head(b) THEN StrLess(Tail(a), Tail(b))
    ELSE PosIn(Head(a), CodeOrder) < PosIn(Head(b), CodeOrder)

\* sorted(S) for a set of strings
RECURSIVE SortedStrs(_)
SortedStrs(S) ==
    IF S = {} THEN <<>>
    ELSE LET lo == CHOOSE x \in S : \A y \in S \ {x} : StrLess(x, y)
         IN  <<lo>> \o SortedStrs(S \ {lo})


-----------------------------------------------------------------------------
(* dcqa_brand_two_pass.py: the alias index                                 *)

\* Python's None; no text of the model equals it
None == "None"

\* Python truthiness of an Optional[str]
Truthy(x) == x # None /\ x # ""

\* idx is a dict keyed by (scope, normalised alias); a dict iterates in insertion
\* order, so it is a sequence of entries [mk, alias, canon]
IdxHas(ix, mk, al) == \E i \in 1..Len(ix) : ix[i].mk = mk /\ ix[i].alias = al

IdxGet(ix, mk, al) == ix[CHOOSE i \in 1..Len(ix) : ix[i].mk = mk /\ ix[i].alias = al].canon

\* idx[key] = canon whether or not the key is there
IdxPutLastWins(ix, mk, al, canon) ==
    IF IdxHas(ix, mk, al)
    THEN [i \in 1..Len(ix) |->
             IF ix[i].mk = mk /\ ix[i].alias = al THEN [ix[i] EXCEPT !.canon = canon] ELSE ix[i]]
    ELSE Append(ix, [mk |-> mk, alias |-> al, canon |-> canon])

\* `if key not in idx: idx[key] = canon`, and idx.setdefault(key, canon)
IdxPut(ix, mk, al, canon) ==
    IF IdxHas(ix, mk, al) THEN ix
    ELSE Append(ix, [mk |-> mk, alias |-> al, canon |-> canon])

\* one iteration of build_index's loop over the taxonomy rows
IndexRow(ix, r) ==
    LET canon  == Strip(r.brand_canonical)
        alias  == IF Strip(r.alias) # "" THEN Strip(r.alias) ELSE canon
        market == Strip(r.market)
        i1 == IdxPut(ix, None, norm(alias), canon)
        i2 == IF market # "" THEN IdxPut(i1, norm(market), norm(alias), canon) ELSE i1
        i3 == IdxPut(i2, None, norm(canon), canon)
        i4 == IF market # "" THEN IdxPut(i3, norm(market), norm(canon), canon) ELSE i3
    IN  IF canon = "" THEN ix ELSE i4

RECURSIVE IndexRows(_, _)
IndexRows(ix, rows) ==
    IF rows = <<>> THEN ix ELSE IndexRows(IndexRow(ix, Head(rows)), Tail(rows))

\* build_index(brands): (idx, sorted(canons))
build_index(brands) ==
    [idx    |-> IndexRows(<<>>, brands),
     canons |-> SortedStrs({Strip(brands[i].brand_canonical) : i \in 1..Len(brands)} \ {""})]

-----------------------------------------------------------------------------
(* dcqa_brand_two_pass.py: title detection                                 *)

\* the shortest normalised name or alias that counts as a hit
MinHitLen == 4

\* hits on canonical names, in canon_list order
CanonHits(t, cl) ==
    LET Hit(c) == LET ncanon == norm(c)
                  IN  ncanon # "" /\ Contains(ncanon, t) /\ Len(ncanon) >= MinHitLen
        sel == SelectSeq(cl, Hit)
    IN  [i \in 1..Len(sel) |-> [canon |-> sel[i], reason |-> "title_contains_canon"]]

\* [alias for (mk, alias) in idx.keys() if mk == scope]
AliasesOf(ix, scope) ==
    LET InScope(e) == e.mk = scope
        sel == SelectSeq(ix, InScope)
    IN  [i \in 1..Len(sel) |-> sel[i].alias]

\* hits on aliases, local aliases before global ones
AliasHits(t, m, ix) ==
    LET local_aliases  == AliasesOf(ix, IF m # "" THEN m ELSE None)
        global_aliases == AliasesOf(ix, None)
        Hit(a) == a # "" /\ Contains(a, t) /\ Len(a) >= MinHitLen
        sel == SelectSeq(local_aliases \o global_aliases, Hit)
    IN  [i \in 1..Len(sel) |->
            [canon  |-> IdxGet(ix, IF IdxHas(ix, m, sel[i]) THEN m ELSE None, sel[i]),
             reason |-> "title_contains_alias"]]

\* de-duplicate the hits' canonicals preserving order
RECURSIVE SeenOf(_, _)
SeenOf(hits, seen) ==
    IF hits = <<>> THEN seen
    ELSE IF \E i \in 1..Len(seen) : seen[i] = Head(hits).canon
         THEN SeenOf(Tail(hits), seen)
         ELSE SeenOf(Tail(hits), Append(seen, Head(hits).canon))

\* seen[0] with the sort by length left out: the first brand hit
LongestFirstUnsorted(seen) == seen[1]

\* sorted(seen, key=len, reverse=True)[0]: the sort is stable, so the first of the
\* longest
LongestFirst(seen) ==
    seen[CHOOSE i \in 1..Len(seen) :
            /\ \A j \in 1..Len(seen) : Len(seen[j]) <= Len(seen[i])
            /\ \A j \in 1..(i - 1) : Len(seen[j]) < Len(seen[i])]

\* reasons[canon]: the reason of the first hit of canon
FirstReason(hits, canon) ==
    hits[CHOOSE i \in 1..Len(hits) :
            /\ hits[i].canon = canon
            /\ \A j \in 1..(i - 1) : hits[j].canon # canon].reason

detect_from_titles(plan_name, campaign_name, market, ix, cl) ==
    LET t    == norm(plan_name \o " " \o campaign_name)
        m    == norm(market)
        hits == CanonHits(t, cl) \o AliasHits(t, m, ix)
        seen == SeenOf(hits, <<>>)
    IN  IF hits = <<>> THEN [brand |-> None, reason |-> ""]
        ELSE IF Len(seen) = 1 THEN [brand |-> seen[1], reason |-> FirstReason(hits, seen[1])]
        ELSE [brand |-> LongestFirst(seen), reason |-> "title_ambiguous"]

-----------------------------------------------------------------------------
(* dcqa_brand_two_pass.py: two_pass_brand                                  *)

\* PassA with a placeholder for an unresolved brand: the raw text is passed on
PassARawFallback(ix, cl, b, m) ==
    LET scope == IF m # "" THEN m ELSE None
    IN  IF IdxHas(ix, scope, b)
        THEN [mapped |-> IdxGet(ix, scope, b), reasonA |-> "tax_exact_local"]
        ELSE IF IdxHas(ix, None, b)
        THEN [mapped |-> IdxGet(ix, None, b), reasonA |-> "tax_exact_global"]
        ELSE [mapped |-> b, reasonA |-> ""]

\* Pass A: the elif chain of the loop body; (m or None, b), then (None, b), then
\* equality with a canonical name
PassA(ix, cl, b, m) ==
    LET scope == IF m # "" THEN m ELSE None
        Eq(c) == norm(c) = b /\ cl # <<>>
        eqs   == SelectSeq(cl, Eq)
    IN  IF IdxHas(ix, scope, b)
        THEN [mapped |-> IdxGet(ix, scope, b), reasonA |-> "tax_exact_local"]
        ELSE IF IdxHas(ix, None, b)
        THEN [mapped |-> IdxGet(ix, None, b), reasonA |-> "tax_exact_global"]
        ELSE IF eqs # <<>>
        THEN [mapped |-> eqs[1], reasonA |-> "tax_canonical_equal"]
        ELSE [mapped |-> None, reasonA |-> ""]

\* Decide with the conflict test written `mapped == title_brand`
DecideEqualTest(mapped, title_brand) ==
    IF Truthy(mapped) /\ Truthy(title_brand) /\ mapped = title_brand
    THEN [issue     |-> "brand_conflict_title",
          recommend |-> <<"Check Market/Brand. Taxonomy maps to", mapped,
                          "titles suggest", title_brand>>]
    ELSE IF ~Truthy(mapped) /\ Truthy(title_brand)
    THEN [issue     |-> "brand_inferred_from_title",
          recommend |-> <<"Consider", title_brand,
                          "(from titles). Add alias to taxonomy if correct.">>]
    ELSE IF Truthy(mapped) /\ ~Truthy(title_brand)
    THEN [issue |-> "brand_ok_no_title_signal", recommend |-> <<>>]
    ELSE IF ~Truthy(mapped) /\ ~Truthy(title_brand)
    THEN [issue     |-> "brand_unmapped",
          recommend |-> <<"Add alias to taxonomy or fix Brand field.">>]
    ELSE [issue |-> "", recommend |-> <<>>]

\* Decide with the conflict test missing its comparison of the two values
DecideAlwaysConflict(mapped, title_brand) ==
    IF Truthy(mapped) /\ Truthy(title_brand)
    THEN [issue     |-> "brand_conflict_title",
          recommend |-> <<"Check Market/Brand. Taxonomy maps to", mapped,
                          "titles suggest", title_brand>>]
    ELSE IF ~Truthy(mapped) /\ Truthy(title_brand)
    THEN [issue     |-> "brand_inferred_from_title",
          recommend |-> <<"Consider", title_brand,
                          "(from titles). Add alias to taxonomy if correct.">>]
    ELSE IF Truthy(mapped) /\ ~Truthy(title_brand)
    THEN [issue |-> "brand_ok_no_title_signal", recommend |-> <<>>]
    ELSE [issue     |-> "brand_unmapped",
          recommend |-> <<"Add alias to taxonomy or fix Brand field.">>]

\* "Decide final + issue": the issue code and the recommendation, whose f-string
\* is kept as the tuple of its parts
Decide(mapped, title_brand) ==
    IF Truthy(mapped) /\ Truthy(title_brand) /\ mapped # title_brand
    THEN [issue     |-> "brand_conflict_title",
          recommend |-> <<"Check Market/Brand. Taxonomy maps to", mapped,
                          "titles suggest", title_brand>>]
    ELSE IF ~Truthy(mapped) /\ Truthy(title_brand)
    THEN [issue     |-> "brand_inferred_from_title",
          recommend |-> <<"Consider", title_brand,
                          "(from titles). Add alias to taxonomy if correct.">>]
    ELSE IF Truthy(mapped) /\ ~Truthy(title_brand)
    THEN [issue |-> "brand_ok_no_title_signal", recommend |-> <<>>]
    ELSE IF ~Truthy(mapped) /\ ~Truthy(title_brand)
    THEN [issue     |-> "brand_unmapped",
          recommend |-> <<"Add alias to taxonomy or fix Brand field.">>]
    ELSE [issue |-> "", recommend |-> <<>>]

\* x or ''
OrBlank(x) == IF Truthy(x) THEN x ELSE ""

\* the loop body with `final = mapped or ''`: the title signal is not used
TwoPassRowTaxOnly(ix, cl, r) ==
    LET a == PassA(ix, cl, norm(r.Brand), norm(r.Market))
        t == detect_from_titles(r.PlanName, r.CampaignName, r.Market, ix, cl)
        d == Decide(a.mapped, t.brand)
    IN  [Brand_raw      |-> r.Brand,
         Market         |-> r.Market,
         PlanName       |-> r.PlanName,
         CampaignName   |-> r.CampaignName,
         Brand_taxonomy |-> OrBlank(a.mapped),
         Brand_title    |-> OrBlank(t.brand),
         Brand_final    |-> OrBlank(a.mapped),
         Reason_tax     |-> a.reasonA,
         Reason_title   |-> t.reason,
         Issue          |-> d.issue,
         Recommendation |-> d.recommend]

\* the loop body with an ambiguous title inference dropped before the decision
TwoPassRowConfidentOnly(ix, cl, r) ==
    LET a == PassA(ix, cl, norm(r.Brand), norm(r.Market))
        t == detect_from_titles(r.PlanName, r.CampaignName, r.Market, ix, cl)
        u == IF t.reason = "title_ambiguous" THEN None ELSE t.brand
        d == Decide(a.mapped, u)
    IN  [Brand_raw      |-> r.Brand,
         Market         |-> r.Market,
         PlanName       |-> r.PlanName,
         CampaignName   |-> r.CampaignName,
         Brand_taxonomy |-> OrBlank(a.mapped),
         Brand_title    |-> OrBlank(t.brand),
         Brand_final    |-> IF Truthy(a.mapped) THEN a.mapped ELSE OrBlank(u),
         Reason_tax     |-> a.reasonA,
         Reason_title   |-> t.reason,
         Issue          |-> d.issue,
         Recommendation |-> d.recommend]

\* the body of the loop over df's rows: the row appended to results
TwoPassRow(ix, cl, r) ==
    LET a == PassA(ix, cl, norm(r.Brand), norm(r.Market))
        t == detect_from_titles(r.PlanName, r.CampaignName, r.Market, ix, cl)
        d == Decide(a.mapped, t.brand)
    IN  [Brand_raw      |-> r.Brand,
         Market         |-> r.Market,
         PlanName       |-> r.PlanName,
         CampaignName   |-> r.CampaignName,
         Brand_taxonomy |-> OrBlank(a.mapped),
         Brand_title    |-> OrBlank(t.brand),
         Brand_final    |-> IF Truthy(a.mapped) THEN a.mapped ELSE OrBlank(t.brand),
         Reason_tax     |-> a.reasonA,
         Reason_title   |-> t.reason,
         Issue          |-> d.issue,
         Recommendation |-> d.recommend]

-----------------------------------------------------------------------------
(* Inputs of two_pass_brand                                                *)

\* the most rows a taxonomy table of the model holds
MaxTaxRows == 2

TaxRow(c, m, a) == [brand_canonical |-> c, market |-> m, alias |-> a]

\* taxonomy rows the tables are made of: a market-scoped and a global row with the
\* same alias, a blank alias, an alias that normalises to nothing, a short name,
\* a blank canonical, a canonical with a trademark sign and padding
TaxRows ==
    { TaxRow("Acme Corp", "DK", "Acme"),
      TaxRow("Bolt", "", "Acme"),
      TaxRow("Bolt", "", ""),
      TaxRow("Acme Corp", "", "ACME-1"),
      TaxRow("Zed", "US", "Zap"),
      TaxRow("", "DK", "Acme"),
      TaxRow("Bolt", "DK", "-"),
      TaxRow(" Bolt$ Power ", "US", "acme") }

RECURSIVE SeqsUpTo(_, _)
SeqsUpTo(S, n) ==
    IF n = 0 THEN {<<>>}
    ELSE LET shorter == SeqsUpTo(S, n - 1)
         IN  shorter \cup {Append(q, x) : q \in {p \in shorter : Len(p) = n - 1}, x \in S}

TaxTables == SeqsUpTo(TaxRows, MaxTaxRows)

\* the rows two_pass_brand is given: Brand, Market, Plan Name, Campaign Name
PlanRows ==
    [Brand        : {"", "Acme", "ACME$", "Bolt", "Nope"},
     Market       : {"DK", "US", ""},
     PlanName     : {"", "Acme Corp Q1", "bolt-on"},
     CampaignName : {"", "Zed/Bolt Power"}]

EmptyRes == TwoPassRow(<<>>, <<>>, [Brand |-> "", Market |-> "", PlanName |-> "", CampaignName |-> ""])

\* norm is not being applied on its own
NormIdle ==
    /\ nin = <<"none">>
    /\ nout = <<>>

\* the daily expanders are separate programs; they are not running
SplitIdle ==
    /\ xpc = [prog |-> "none", at |-> "idle"]
    /\ sdf = <<>>
    /\ xix = 0
    /\ out_rows = <<>>

\* the plans pipeline before any file is read
PipeIdle ==
    /\ df = <<>>
    /\ prev = <<>>
    /\ qa = <<>>
    /\ ref = <<>>
    /\ stage = "idle"
    /\ frames = <<>>

InitBrand ==
    /\ tax \in TaxTables
    /\ idx = <<>>
    /\ canon_list = <<>>
    /\ bpc = "start"
    /\ res = EmptyRes
    /\ PipeIdle
    /\ SplitIdle
    /\ NormIdle

\* two_pass_brand up to its loop: the index is built once
TwoPassStart ==
    /\ bpc = "start"
    /\ idx' = build_index(tax).idx
    /\ canon_list' = build_index(tax).canons
    /\ bpc' = "loop"
    /\ UNCHANGED <<tax, res>>
    /\ UNCHANGED pipeVars
    /\ UNCHANGED splitVars
    /\ UNCHANGED normVars

\* the iteration of two_pass_brand's loop on a row of df; the rows are resolved
\* independently of each other, and df holds one row
TwoPassLoop ==
    /\ bpc = "loop"
    /\ \E r \in PlanRows : res' = TwoPassRow(idx, canon_list, r)
    /\ bpc' = "row"
    /\ UNCHANGED <<tax, idx, canon_list>>
    /\ UNCHANGED pipeVars
    /\ UNCHANGED splitVars
    /\ UNCHANGED normVars

NextBrand == TwoPassStart \/ TwoPassLoop

SpecBrand == InitBrand /\ [][NextBrand]_vars

-----------------------------------------------------------------------------
(* Properties of two_pass_brand, under SpecBrand                           *)

\* the table of the market-scoped / global example: canonical A = "Acme Corp" for
\* market DK and canonical B = "Bolt" with no market, both under alias X = "Acme"
ScopedThenGlobal == <<TaxRow("Acme Corp", "DK", "Acme"), TaxRow("Bolt", "", "Acme")>>

\* C1: with the rows [(A, DK, X), (B, global, X)] in that order, Pass A resolves X
\* to A for a record of market DK and to B for a record of market US.
C1_ScopedOutranksGlobal ==
    (bpc = "row" /\ tax = ScopedThenGlobal /\ res.Brand_raw = "Acme") =>
        /\ (res.Market = "DK" => res.Brand_taxonomy = "Acme Corp")
        /\ (res.Market = "US" => res.Brand_taxonomy = "Bolt")

\* C5: when Pass A maps to A and Pass B infers a different B, the result carries
\* the brand-conflict issue, with A as the taxonomy (current) value and B as the
\* title (suggested) value.
C5_ConflictSurfacesBoth ==
    (/\ bpc = "row"
     /\ res.Brand_taxonomy # ""
     /\ res.Brand_title # ""
     /\ res.Brand_taxonomy # res.Brand_title) =>
        /\ res.Issue = "brand_conflict_title"
        /\ res.Recommendation = <<"Check Market/Brand. Taxonomy maps to", res.Brand_taxonomy,
                                  "titles suggest", res.Brand_title>>

C5_Witness ==
    /\ bpc = "row"
    /\ res.Brand_raw = "Acme"
    /\ res.Brand_taxonomy = "Acme Corp"
    /\ res.Brand_title = "Bolt"
    /\ res.Issue = "brand_conflict_title"

\* C6: when both passes produce the same canonical brand, it is the final brand
\* and there is no conflict issue; a conflict issue is raised only when the two
\* passes produce different values.
C6_AgreementIsNoConflict ==
    bpc = "row" =>
        /\ (res.Brand_taxonomy # "" /\ res.Brand_taxonomy = res.Brand_title) =>
               (res.Brand_final = res.Brand_taxonomy /\ res.Issue # "brand_conflict_title")
        /\ res.Issue = "brand_conflict_title" =>
               (/\ res.Brand_taxonomy # ""
                /\ res.Brand_title # ""
                /\ res.Brand_taxonomy # res.Brand_title)

\* raw brand "Acme", a DK-scoped alias of "Acme Corp", and a plan title that
\* contains "Acme Corp"
C6_Witness ==
    /\ bpc = "row"
    /\ tax = <<TaxRow("Acme Corp", "DK", "Acme")>>
    /\ res.Brand_raw = "Acme"
    /\ res.Market = "DK"
    /\ res.PlanName = "Acme Corp Q1"
    /\ res.Reason_tax = "tax_exact_local"
    /\ res.Brand_title = "Acme Corp"
    /\ res.Brand_final = "Acme Corp"
    /\ res.Issue = ""

\* C7: when Pass A finds nothing and Pass B infers a brand, the issue is
\* brand-inferred-from-title and the brand reported, and made final, is the
\* title-inferred one.
C7_InferredFromTitle ==
    (bpc = "row" /\ res.Brand_taxonomy = "" /\ res.Brand_title # "") =>
        /\ res.Issue = "brand_inferred_from_title"
        /\ res.Brand_final = res.Brand_title
        /\ res.Recommendation = <<"Consider", res.Brand_title,
                                  "(from titles). Add alias to taxonomy if correct.">>

\* a blank raw brand and a title that contains exactly one canonical name
C7_Witness ==
    /\ bpc = "row"
    /\ tax = <<TaxRow("Bolt", "", "")>>
    /\ res.Brand_raw = ""
    /\ res.PlanName = "bolt-on"
    /\ res.CampaignName = ""
    /\ res.Reason_title = "title_contains_canon"
    /\ res.Issue = "brand_inferred_from_title"
    /\ res.Brand_final = "Bolt"

\* the canonical values of the reference table
Canonicals == {Strip(tax[i].brand_canonical) : i \in 1..Len(tax)} \ {""}

\* C8: when neither pass produces a brand the issue is brand-unmapped and the
\* final brand is blank; the final brand is always blank or a canonical value of
\* the reference table.
C8_NeverInvented ==
    bpc = "row" =>
        /\ (res.Brand_taxonomy = "" /\ res.Brand_title = "") =>
               (res.Issue = "brand_unmapped" /\ res.Brand_final = "")
        /\ res.Brand_final \in Canonicals \cup {""}

C8_Witness ==
    /\ bpc = "row"
    /\ Canonicals # {}
    /\ res.Brand_raw = "Nope"
    /\ res.Issue = "brand_unmapped"
    /\ res.Brand_final = ""

-----------------------------------------------------------------------------
(* run_cleaning.py: frames, merges and the ledger                          *)
(*                                                                         *)
(* A frame is the sequence of its rows in order; a row is its index label  *)
(* and its cells, a function from column names to values.  read_excel_first*)
(* labels the rows 0, 1, 2, ...; .loc[mask] and .copy() keep the labels.   *)
(* A reference table is a sequence of cells; merge() returns a frame       *)
(* labelled 0, 1, 2, ... whatever the labels of its left operand.          *)

\* numpy.nan in a numeric cell; every number of the model's inputs is above it
NaN == -99999

\* pandas.NaT in a date cell
NaT == "NaT"

Digits == "0123456789"

IsDigits(s) == s # "" /\ \A i \in 1..Len(s) : InStr(Ch(s, i), Digits)

RECURSIVE DigitsValue(_)
DigitsValue(s) ==
    IF s = "" THEN 0
    ELSE 10 * DigitsValue(SubSeq(s, 1, Len(s) - 1)) + (PosIn(Ch(s, Len(s)), Digits) - 1)

\* pd.to_numeric(x, errors="coerce") of a text cell: the texts of the model are
\* digit strings, or not numbers at all
ToNumeric(s) == IF IsDigits(s) THEN DigitsValue(s) ELSE NaN

\* str(x) of a number: the text is kept as the number it prints
Str(x) == <<"str", x>>

\* .fillna(0)
FillNa0(x) == IF x = NaN THEN 0 ELSE x

Abs(x) == IF x < 0 THEN 0 - x ELSE x

\* str.lower(), which casefold() equals on the characters of the model
Lower(s) == Casefold(s)

\* .astype(str).str.strip() == ""
Blank(v) == Strip(v) = ""

\* row.get(c, default)
Get(cells, c, default) == IF c \in DOMAIN cells THEN cells[c] ELSE default

\* df[c] = v on one row
SetCol(cells, c, v) == [x \in DOMAIN cells \cup {c} |-> IF x = c THEN v ELSE cells[x]]

Range(q) == {q[i] : i \in 1..Len(q)}

\* `for c in cols: if c not in out.columns: out[c] = ""`
EnsureCols(frame, cols) ==
    [i \in 1..Len(frame) |->
        [frame[i] EXCEPT !.cells =
            [x \in DOMAIN frame[i].cells \cup Range(cols) |->
                IF x \in DOMAIN frame[i].cells THEN frame[i].cells[x] ELSE ""]]]

\* a reference table made ready: the expected columns exist and are stripped
NormaliseRef(table, cols) ==
    [i \in 1..Len(table) |->
        [x \in DOMAIN table[i] \cup Range(cols) |->
            IF x \notin DOMAIN table[i] THEN ""
            ELSE IF x \in Range(cols) THEN Strip(table[i][x]) ELSE table[i][x]]]

\* exact equality of the join keys, column by column
KeysEqual(lc, rc, left_on, right_on) ==
    \A k \in 1..Len(left_on) : lc[left_on[k]] = rc[right_on[k]]

\* left.merge(right, how="left", left_on=..., right_on=...): the left rows in
\* order, each once per matching right row in the right table's order, or once
\* with no right row; the result is labelled by position
RECURSIVE LeftMerge(_, _, _, _)
LeftMerge(left, right, left_on, right_on) ==
    IF left = <<>> THEN <<>>
    ELSE LET lc == Head(left).cells
             Hit(rc) == KeysEqual(lc, rc, left_on, right_on)
             hits == SelectSeq(right, Hit)
             rows == IF hits = <<>>
                     THEN << [l |-> lc, r |-> <<>>, hit |-> FALSE] >>
                     ELSE [j \in 1..Len(hits) |-> [l |-> lc, r |-> hits[j], hit |-> TRUE]]
         IN  rows \o LeftMerge(Tail(left), right, left_on, right_on)

\* m[c].fillna("") on one merged row.  With suffixes=("", "_x") a column name that
\* both sides have keeps the left side's values; a right-side column is NaN on a
\* row with no match; brands_map and campaigns_map add a missing column as ""
MergedStr(mrow, c, right_cols) ==
    IF c \in DOMAIN mrow.l THEN mrow.l[c]
    ELSE IF c \in Range(right_cols) /\ mrow.hit THEN mrow.r[c]
    ELSE ""

\* m[c].reindex(out.index).fillna("") at one label of out: the merged row at the
\* position that equals the label, if there is one
ReindexStr(m, label, c, right_cols) ==
    IF label + 1 \in 1..Len(m) THEN MergedStr(m[label + 1], c, right_cols) ELSE ""

\* qa_event(row, field, issue, current, suggested, owner, priority)
qa_event(row, field, issue, current, suggested, owner, priority) ==
    [Market          |-> Get(row, "Market", ""),
     Region          |-> Get(row, "Region", ""),
     FX_Year         |-> Get(row, "FX_Year", ""),
     Plan_ID         |-> Get(row, "Plan ID", ""),
     Plan_Name       |-> Get(row, "Plan Name", ""),
     Field           |-> field,
     Issue_Type      |-> issue,
     Current_Value   |-> current,
     Suggested_Value |-> suggested,
     Priority        |-> priority,
     Owner           |-> owner,
     Notes           |-> ""]

RECURSIVE LocFrom(_, _, _)
LocFrom(q, mask, i) ==
    IF i > Len(q) THEN <<>>
    ELSE (IF mask[i] THEN <<q[i]>> ELSE <<>>) \o LocFrom(q, mask, i + 1)

\* q.loc[mask]: the elements of q, in order, where the boolean sequence mask holds
Loc(q, mask) == LocFrom(q, mask, 1)

-----------------------------------------------------------------------------
(* process_plans: Plan Status defaults, cancelled rows, dates, empty rows  *)

LocalCostCol  == "Total Cost to Client (Local)"
GlobalCostCol == "Total Cost to Client (Global)"

\* the columns of the frame that metric_pat matches
metric_cols == {LocalCostCol, GlobalCostCol}

\* "Plan Status defaults & drop cancelled"
StatusStage(frame) ==
    LET IsBlank(c)     == Blank(c["Plan Status"])
        Default(c)     == IF IsBlank(c) THEN SetCol(c, "Plan Status", "Planned") ELSE c
        defaulted      == [i \in 1..Len(frame) |-> [frame[i] EXCEPT !.cells = Default(@)]]
        blankRows      == Loc(frame, [k \in 1..Len(frame) |-> IsBlank(frame[k].cells)])
        EvDefault(c)   == qa_event(c, "Plan Status", "status_defaulted", "", "Planned",
                                   "Offshore Ops", "P3")
        IsCancelled(c) == Lower(c["Plan Status"]) \in {"cancelled", "canceled"}
        NotCancelled(c) == ~IsCancelled(c)
        EvDropped(c)   == qa_event(c, "Plan Status", "row_dropped_cancelled", "", "",
                                   "Analytics", "P3")
    IN  [out    |-> Loc(defaulted, [k \in 1..Len(defaulted) |-> NotCancelled(defaulted[k].cells)]),
         events |-> [i \in 1..Len(blankRows) |-> EvDefault(Default(blankRows[i].cells))]
                    \o Loc([k \in 1..Len(defaulted) |-> EvDropped(defaulted[k].cells)],
                           [k \in 1..Len(defaulted) |-> IsCancelled(defaulted[k].cells)]),
         ok     |-> TRUE]

\* int(fx_year) raises ValueError on a text that is no integer
IntRaises(fx_year) == ~IsDigits(fx_year)

\* the date a placeholder such as "01/01/{FX_Year}" parses to, as str(date)
StartPlaceholder(fx_year) == fx_year \o "-01-01"
EndPlaceholder(fx_year)   == fx_year \o "-12-31"

\* one iteration of "Date placeholders & drop truly empty metric rows":
\* what the row becomes (drop: marked __drop), its events, and whether int() raised
DatesRow(row, ph) ==
    LET r        == row.cells
        s        == r["Start Date"]
        e        == r["End Date"]
        all_zero == \A c \in metric_cols : FillNa0(r[c]) = 0
        fx_year  == r["FX_Year"]
        doStart  == s = NaT /\ ph.start_if_missing
        doEnd    == e = NaT /\ ph.end_if_missing
        r1       == IF doStart THEN SetCol(r, "Start Date", StartPlaceholder(fx_year)) ELSE r
        r2       == IF doEnd THEN SetCol(r1, "End Date", EndPlaceholder(fx_year)) ELSE r1
        ev1      == IF doStart
                    THEN <<qa_event(r, "Start Date", "date_placeholder_applied", "",
                                    StartPlaceholder(fx_year), "Analytics", "P3")>>
                    ELSE <<>>
        ev2      == IF doEnd
                    THEN <<qa_event(r, "End Date", "date_placeholder_applied", "",
                                    EndPlaceholder(fx_year), "Analytics", "P3")>>
                    ELSE <<>>
    IN  IF s = NaT /\ e = NaT /\ all_zero
        THEN [drop |-> TRUE, row |-> row, raised |-> FALSE,
              events |-> <<qa_event(r, "Row", "row_dropped_empty", "", "", "Analytics", "P3")>>]
        ELSE IF (doStart \/ doEnd) /\ IntRaises(fx_year)
        THEN [drop |-> FALSE, row |-> row, raised |-> TRUE, events |-> <<>>]
        ELSE [drop |-> FALSE, row |-> [row EXCEPT !.cells = r2], raised |-> FALSE,
              events |-> ev1 \o ev2]

RECURSIVE DatesLoop(_, _, _)
DatesLoop(frame, ph, acc) ==
    IF frame = <<>> \/ ~acc.ok THEN acc
    ELSE LET d == DatesRow(Head(frame), ph)
         IN  DatesLoop(Tail(frame), ph,
                       [out    |-> IF d.drop THEN acc.out ELSE Append(acc.out, d.row),
                        events |-> acc.events \o d.events,
                        ok     |-> ~d.raised])

\* the loop over the rows, then `df.loc[df["__drop"] != True]`
DatesStage(frame, ph) == DatesLoop(frame, ph, [out |-> <<>>, events |-> <<>>, ok |-> TRUE])

-----------------------------------------------------------------------------
(* process_plans: defaults, objective whitelist; region_check;             *)
(* actualisation_backfill                                                  *)

RECURSIVE ReplaceSpace(_)
ReplaceSpace(s) ==
    IF s = "" THEN ""
    ELSE (IF Ch(s, 1) = " " THEN "_" ELSE Ch(s, 1)) \o ReplaceSpace(SubSeq(s, 2, Len(s)))

\* f"{field.replace(' ','_').lower()}_defaulted"
DefaultedIssue(field) == Lower(ReplaceSpace(field)) \o "_defaulted"

\* "Defaults / temporary fills": fills a sequence of <<field, default_val>>
RECURSIVE DefaultsLoop(_, _)
DefaultsLoop(acc, fills) ==
    IF fills = <<>> THEN acc
    ELSE LET field == Head(fills)[1]
             val   == Head(fills)[2]
             Miss(c) == Blank(c[field])
             missRows == Loc(acc.out, [k \in 1..Len(acc.out) |-> Miss(acc.out[k].cells)])
             out   == [i \in 1..Len(acc.out) |->
                         IF Miss(acc.out[i].cells)
                         THEN [acc.out[i] EXCEPT !.cells[field] = val]
                         ELSE acc.out[i]]
             evs   == [i \in 1..Len(missRows) |->
                         qa_event([missRows[i].cells EXCEPT ![field] = val], field,
                                  DefaultedIssue(field), "", val, "Analytics", "P3")]
         IN  DefaultsLoop([out |-> out, events |-> acc.events \o evs, ok |-> TRUE],
                          Tail(fills))

\* "Objective whitelist"
ObjectiveStage(frame, allowed) ==
    LET Bad(c) == c["Objective"] \notin allowed
        Ev(c)  == qa_event(c, "Objective", "objective_normalised", c["Objective"],
                           "Awareness", "Analytics", "P3")
    IN  IF allowed = {} \/ ~\E i \in 1..Len(frame) : Bad(frame[i].cells)
        THEN [out |-> frame, events |-> <<>>, ok |-> TRUE]
        ELSE [out    |-> [i \in 1..Len(frame) |->
                             IF Bad(frame[i].cells)
                             THEN [frame[i] EXCEPT !.cells["Objective"] = "Awareness"]
                             ELSE frame[i]],
              events |-> Loc([k \in 1..Len(frame) |-> Ev(frame[k].cells)],
                             [k \in 1..Len(frame) |-> Bad(frame[k].cells)]),
              ok     |-> TRUE]

\* map_reg.get(mkt, ""): the region of the first row of the market; "" if none
MapReg(fx, mkt) ==
    LET Of(r) == r["market"] = mkt
        sel == SelectSeq(fx, Of)
    IN  IF sel = <<>> THEN [known |-> FALSE, region |-> ""]
        ELSE [known |-> TRUE, region |-> sel[1]["region"]]

\* the events of one row of region_check
RegionRowEvents(c, fx) ==
    LET mkt == Strip(c["Market"])
        reg == Strip(c["Region"])
        e   == MapReg(fx, mkt)
    IN  (IF e.region # "" /\ reg # "" /\ e.region # reg
         THEN <<qa_event(c, "Region", "region_mismatch", reg, e.region, "Analytics", "P3")>>
         ELSE <<>>)
        \o (IF mkt # "" /\ ~e.known
            THEN <<qa_event(c, "Market", "market_unknown", mkt, "", "Analytics", "P3")>>
            ELSE <<>>)

RECURSIVE RegionEvents(_, _)
RegionEvents(frame, fx) ==
    IF frame = <<>> THEN <<>>
    ELSE RegionRowEvents(Head(frame).cells, fx) \o RegionEvents(Tail(frame), fx)

\* region_check(plans, rules, fx_df, qa)
region_check(plans, enabled, fx_df) ==
    IF ~enabled THEN [out |-> plans, events |-> <<>>, ok |-> TRUE]
    ELSE [out    |-> plans,
          events |-> RegionEvents(plans, NormaliseRef(fx_df, <<"market", "region">>)),
          ok     |-> TRUE]

\* `when`: the end date, or the start date where there is none
When(c) == IF c["End Date"] # NaT THEN c["End Date"] ELSE c["Start Date"]

\* old_mask: every date of the model lies further back than age_days_threshold
\* on the day of the run, and a row with no date has no age
OldMask(c) == When(c) # NaT

\* one scope of actualisation_backfill, sc = [a, p, flag]
BackfillScope(acc, sc) ==
    LET has     == \A k \in 1..Len(acc.out) :
                      sc.a \in DOMAIN acc.out[k].cells /\ sc.p \in DOMAIN acc.out[k].cells
        Miss(c) == OldMask(c) /\ FillNa0(c[sc.a]) = 0
        Fill(c) == IF Miss(c) THEN [c EXCEPT ![sc.a] = FillNa0(c[sc.p])] ELSE c
        \* extra = {"Days_Since_End": ...}: the age is kept as the date it is counted from
        Ev(c)   == qa_event(Fill(c), sc.a, sc.flag, "0/blank", Str(c[sc.p]), "Analytics", "P2")
                   @@ ("Days_Since_End" :> When(c))
    IN  IF ~has THEN acc
        ELSE [out    |-> [i \in 1..Len(acc.out) |-> [acc.out[i] EXCEPT !.cells = Fill(@)]],
              events |-> acc.events
                         \o Loc([k \in 1..Len(acc.out) |-> Ev(acc.out[k].cells)],
                                [k \in 1..Len(acc.out) |-> Miss(acc.out[k].cells)]),
              ok     |-> TRUE]

RECURSIVE BackfillScopes(_, _)
BackfillScopes(acc, scopes) ==
    IF scopes = <<>> THEN acc
    ELSE BackfillScopes(BackfillScope(acc, Head(scopes)), Tail(scopes))

\* actualisation_backfill(plans, rules, qa); cfg = [enabled, scopes], scopes the
\* "local" and "global" entries in that order
actualisation_backfill(plans, cfg) ==
    IF ~cfg.enabled THEN [out |-> plans, events |-> <<>>, ok |-> TRUE]
    ELSE BackfillScopes([out |-> plans, events |-> <<>>, ok |-> TRUE], cfg.scopes)

-----------------------------------------------------------------------------
(* brands_map                                                              *)

BrandCleanCols ==
    <<"Brand_clean", "Brand_Type", "Category_clean", "SubCategory_clean", "Variant_clean">>

BrandRefCols ==
    <<"raw_brand", "raw_variant", "market", "region", "brand_clean", "brand_type",
      "variant", "category", "subcategory">>

\* "prepare keys from input"
BrandKeys(frame) ==
    [i \in 1..Len(frame) |->
        [frame[i] EXCEPT !.cells =
            LET c == frame[i].cells
            IN  SetCol(SetCol(SetCol(c, "_raw_brand", Strip(c["Brand"])),
                              "_raw_variant", Strip(c["Variant"])),
                       "_market", Strip(c["Market"]))]]

\* the left column a precedence key joins on
BrandLeftKey(k) ==
    IF k = "raw_brand" THEN "_raw_brand"
    ELSE IF k = "raw_variant" THEN "_raw_variant"
    ELSE IF k = "market" THEN "_market"
    ELSE k

\* out[dst] = np.where(fill, m[src].reindex(out.index).fillna(""), out[dst])
FillByLabel(out, m, src, dst, right_cols) ==
    [i \in 1..Len(out) |->
        IF Blank(out[i].cells[dst])
        THEN [out[i] EXCEPT !.cells[dst] = ReindexStr(m, out[i].label, src, right_cols)]
        ELSE out[i]]

\* `for src, dst in outputs.items()`, outputs a sequence of <<src, dst>>
RECURSIVE FillOutputs(_, _, _, _)
FillOutputs(out, m, outputs, right_cols) ==
    IF outputs = <<>> THEN out
    ELSE FillOutputs(FillByLabel(out, m, Head(outputs)[1], Head(outputs)[2], right_cols),
                     m, Tail(outputs), right_cols)

\* "iterative merge by precedence"
RECURSIVE BrandsPrecedence(_, _, _, _)
BrandsPrecedence(out, b, precedence, outputs) ==
    IF precedence = <<>> THEN out
    ELSE LET keys    == Head(precedence)
             left_on == [k \in 1..Len(keys) |-> BrandLeftKey(keys[k])]
             m       == LeftMerge(out, b, left_on, keys)
         IN  BrandsPrecedence(FillOutputs(out, m, outputs, BrandRefCols),
                              b, Tail(precedence), outputs)

\* out["__hint"]: the first hint whose pattern the plan name contains; the
\* patterns of the model are literal texts
HintOf(c, hints) ==
    LET Hits(h) == Contains(h.rgx, c["Plan Name"])
        sel == SelectSeq(hints, Hits)
    IN  IF sel = <<>> THEN "" ELSE sel[1].k

\* brands_map(plans, rules, brands_df, qa): the frame returned and the events
\* appended to qa
brands_map(plans, rules, brands_df) ==
    LET out0     == BrandKeys(EnsureCols(plans, BrandCleanCols))
        b        == NormaliseRef(brands_df, BrandRefCols)
        out      == BrandsPrecedence(out0, b, rules.precedence, rules.outputs)
        Miss(c)  == Blank(c["Brand_clean"])
        EvMiss(c) == qa_event(c, "Brand", "brand_unmapped", c["Brand"], "", "Analytics", "P2")
        Conflict(c) == HintOf(c, rules.hints) # "" /\ c["Brand_clean"] # HintOf(c, rules.hints)
        EvConflict(c) == qa_event(c, "Brand", "brand_conflict_with_plan_name",
                                  c["Brand_clean"], HintOf(c, rules.hints), "Analytics", "P2")
    IN  [out    |-> out,
         events |-> Loc([k \in 1..Len(out) |-> EvMiss(out[k].cells)],
                        [k \in 1..Len(out) |-> Miss(out[k].cells)])
                    \o Loc([k \in 1..Len(out) |-> EvConflict(out[k].cells)],
                           [k \in 1..Len(out) |-> Conflict(out[k].cells)]),
         ok     |-> TRUE]

-----------------------------------------------------------------------------
(* vendors_map, campaigns_map                                              *)

VendorCleanCols == <<"Vendor_clean", "Vendor_House", "Vendor_Type">>

VendorRefCols == <<"raw_vendor", "vendor_clean", "vendor_house", "vendor_type">>

VendorOutputs ==
    << <<"vendor_clean", "Vendor_clean">>, <<"vendor_house", "Vendor_House">>,
       <<"vendor_type", "Vendor_Type">> >>

\* vendors_map(plans, rules, vend_df, qa).  Its fill,
\*     out.loc[fill, dst] = m.reindex(out.index).loc[fill, src].fillna(""),
\* gives the row of label L the merged row at position L, as brands_map's does
vendors_map(plans, vend_df) ==
    LET e     == EnsureCols(plans, VendorCleanCols)
        out0  == [i \in 1..Len(e) |->
                    [e[i] EXCEPT !.cells = SetCol(@, "_raw_vendor", Strip(@["Vendor"]))]]
        v     == NormaliseRef(vend_df, VendorRefCols)
        m     == LeftMerge(out0, v, <<"_raw_vendor">>, <<"raw_vendor">>)
        out1  == FillOutputs(out0, m, VendorOutputs, VendorRefCols)
        Miss(c) == Blank(c["Vendor_clean"])
        out   == [i \in 1..Len(out1) |->
                    IF Miss(out1[i].cells)
                    THEN [out1[i] EXCEPT !.cells["Vendor_clean"] = "_Placeholder"]
                    ELSE out1[i]]
        missRows == Loc(out1, [k \in 1..Len(out1) |-> Miss(out1[k].cells)])
    IN  [out    |-> out,
         events |-> [i \in 1..Len(missRows) |->
                        qa_event(missRows[i].cells, "Vendor", "vendor_unmapped",
                                 missRows[i].cells["Vendor"], "_Placeholder",
                                 "Partnerships", "P2")],
         ok     |-> TRUE]

CampCleanCols == <<"Campaign_clean", "Campaign_Type", "Campaign_SubType">>

CampRefCols ==
    <<"raw_campaign", "raw_plan_name", "market", "brand", "campaign_clean",
      "campaign_type", "campaign_subtype">>

CampKeys(frame) ==
    [i \in 1..Len(frame) |->
        [frame[i] EXCEPT !.cells =
            LET c == frame[i].cells
            IN  SetCol(SetCol(SetCol(c, "_raw_campaign", Strip(c["Campaign Name"])),
                              "_market", Strip(c["Market"])),
                       "_brand", Strip(c["Brand_clean"]))]]

CampLeftKey(k) ==
    IF k = "raw_campaign" THEN "_raw_campaign"
    ELSE IF k = "market" THEN "_market"
    ELSE IF k = "brand" THEN "_brand"
    ELSE k

RECURSIVE CampPrecedence(_, _, _, _)
CampPrecedence(out, c, precedence, outputs) ==
    IF precedence = <<>> THEN out
    ELSE LET keys    == Head(precedence)
             left_on == [k \in 1..Len(keys) |-> CampLeftKey(keys[k])]
             m       == LeftMerge(out, c, left_on, keys)
         IN  CampPrecedence(FillOutputs(out, m, outputs, CampRefCols),
                            c, Tail(precedence), outputs)

\* campaigns_map(plans, rules, camp_df, qa)
campaigns_map(plans, rules, camp_df) ==
    LET out0  == CampKeys(EnsureCols(plans, CampCleanCols))
        c     == NormaliseRef(camp_df, CampRefCols)
        out1  == CampPrecedence(out0, c, rules.precedence, rules.outputs)
        Miss(x) == Blank(x["Campaign_clean"])
        \* "fallback to raw Campaign Name if still blank"
        out   == [i \in 1..Len(out1) |->
                    IF Miss(out1[i].cells)
                    THEN [out1[i] EXCEPT !.cells["Campaign_clean"] = out1[i].cells["Campaign Name"]]
                    ELSE out1[i]]
        missRows == Loc(out1, [k \in 1..Len(out1) |-> Miss(out1[k].cells)])
    IN  [out    |-> out,
         events |-> [i \in 1..Len(missRows) |->
                        qa_event(missRows[i].cells, "Campaign Name", "campaign_unmapped",
                                 missRows[i].cells["Campaign Name"], "", "Analytics", "P3")],
         ok     |-> TRUE]

-----------------------------------------------------------------------------
(* channels_map                                                            *)

ChanCleanCols ==
    <<"Channel_clean", "SubChannel_clean", "ChannelFinanceGroup_clean", "ExComChannel">>

ChanRefCols == <<"Channel Finance Group", "Channel", "Sub-Channel", "ExComChannel">>

\* target column, and the column of the merge it is filled from
ChanOutputs ==
    << <<"Channel", "Channel_clean">>, <<"Sub-Channel", "SubChannel_clean">>,
       <<"Channel Finance Group", "ChannelFinanceGroup_clean">>,
       <<"ExComChannel", "ExComChannel">> >>

\* the labels of a frame are exactly those of a merge result, 0 .. len(m)-1;
\* m.loc[mask, col] with a mask indexed otherwise raises IndexingError
Aligned(out, m) == {out[i].label : i \in 1..Len(out)} = 0..(Len(m) - 1)

\* out[dst] = np.where(out[dst].eq(""), m[src].fillna(""), out[dst]): numpy pairs
\* the rows by position, on the rows of mask
RECURSIVE FillByPosition(_, _, _, _)
FillByPosition(out, m, outputs, mask) ==
    IF outputs = <<>> THEN out
    ELSE LET src == Head(outputs)[1]
             dst == Head(outputs)[2]
             nxt == [i \in 1..Len(out) |->
                        IF mask[i] /\ out[i].cells[dst] = ""
                        THEN [out[i] EXCEPT !.cells[dst] = MergedStr(m[i], src, ChanRefCols)]
                        ELSE out[i]]
         IN  FillByPosition(nxt, m, Tail(outputs), mask)

\* channels_map(plans, rules, ch_df, qa); prefer is rules' prefer_key
channels_map(plans, prefer, ch_df) ==
    LET out0  == EnsureCols(plans, ChanCleanCols)
        c     == NormaliseRef(ch_df, ChanRefCols)
        other == IF prefer = "Sub-Channel" THEN "Channel" ELSE "Sub-Channel"
        m     == LeftMerge(out0, c, <<prefer>>, <<prefer>>)
        \* np.where and the column assignment raise ValueError on other lengths
        ok1   == Len(m) = Len(out0)
        out1  == FillByPosition(out0, m, ChanOutputs, [i \in 1..Len(out0) |-> TRUE])
        miss  == [i \in 1..Len(out1) |-> Blank(out1[i].cells["ChannelFinanceGroup_clean"])]
        any   == \E i \in 1..Len(out1) : miss[i]
        m2    == LeftMerge(out1, c, <<other>>, <<other>>)
        ok2   == ~any \/ Aligned(out1, m2)
        out2  == IF any THEN FillByPosition(out1, m2, ChanOutputs, miss) ELSE out1
        MissAny(x) == \/ Blank(x["ChannelFinanceGroup_clean"])
                      \/ Blank(x["Channel_clean"])
                      \/ Blank(x["SubChannel_clean"])
        Ev(x) == qa_event(x, "Channel", "channel_unmapped",
                          x["Channel"] \o "|" \o x["Sub-Channel"], "", "Analytics", "P3")
    IN  IF prefer \notin {"Sub-Channel", "Channel"}
        THEN [out |-> out0, events |-> Loc([k \in 1..Len(out0) |-> Ev(out0[k].cells)],
                                           [k \in 1..Len(out0) |-> MissAny(out0[k].cells)]),
              ok |-> TRUE]
        ELSE IF ~ok1 \/ ~ok2
        THEN [out |-> plans, events |-> <<>>, ok |-> FALSE]
        ELSE [out |-> out2, events |-> Loc([k \in 1..Len(out2) |-> Ev(out2[k].cells)],
                                           [k \in 1..Len(out2) |-> MissAny(out2[k].cells)]),
              ok |-> TRUE]

-----------------------------------------------------------------------------
(* fx_merge_and_derive                                                     *)

FxRefCols == <<"market", "currency", "fx_year", "fx_to_eur", "fx_to_dkk", "region">>

FxKeyCols == <<"_Market", "_Currency", "_Year">>

FxKeysLeft(frame) ==
    [i \in 1..Len(frame) |->
        [frame[i] EXCEPT !.cells =
            LET c == frame[i].cells
            IN  SetCol(SetCol(SetCol(c, "_Market", Strip(c["Market"])),
                              "_Currency", Upper(Strip(c["Currency"]))),
                       "_Year", Strip(c["FX_Year"]))]]

FxKeysRight(fx) ==
    [i \in 1..Len(fx) |->
        SetCol(SetCol(SetCol(fx[i], "_Market", fx[i]["market"]),
                      "_Currency", Upper(fx[i]["currency"])),
               "_Year", fx[i]["fx_year"])]

\* out[c] = pd.to_numeric(m[c], errors="coerce") at one label of out: the
\* assignment of a Series aligns on the index, so the row of label L takes the
\* merged row at position L, and NaN if there is none or it has no match
RateByLabel(m, label, c) ==
    IF label + 1 \notin 1..Len(m) THEN NaN
    ELSE IF c \in DOMAIN m[label + 1].l THEN m[label + 1].l[c]
    ELSE IF m[label + 1].hit THEN ToNumeric(m[label + 1].r[c])
    ELSE NaN

\* the rate column of a currency of compute_pairs
RateCol(cur) == IF Lower(cur) = "dkk" THEN "fx_to_dkk" ELSE "fx_to_eur"

\* `for local_col, out_col in mapping`, on one row
RECURSIVE DeriveMapping(_, _, _)
DeriveMapping(cells, rate_col, mapping) ==
    IF mapping = <<>> THEN cells
    ELSE LET local_col == Head(mapping)[1]
             out_col   == Head(mapping)[2]
             rate      == FillNa0(cells[rate_col])
             nxt       == IF local_col \in DOMAIN cells
                          THEN SetCol(cells, out_col, FillNa0(cells[local_col]) * rate)
                          ELSE cells
         IN  DeriveMapping(nxt, rate_col, Tail(mapping))

\* `for cur, mapping in pairs.items()`, on one row
RECURSIVE DerivePairs(_, _)
DerivePairs(cells, pairs) ==
    IF pairs = <<>> THEN cells
    ELSE DerivePairs(DeriveMapping(cells, RateCol(Head(pairs).cur), Head(pairs).mapping),
                     Tail(pairs))

\* the default of tolerance_ratio, 0.02, as a fraction
TolNum == 2
TolDen == 100

checks ==
    << <<"Total Cost to Client (Global)", "Planned_Spend_EUR">>,
       <<"Total Cost to Client Actual (Global)", "Actualised_Spend_EUR">>,
       <<"Net Media Cost (Global)", "Net_Media_EUR">> >>

AuditBadNoSign(given, calc, tol) ==
    Abs(given - calc) * tol.den > tol.num * (IF given # 0 THEN given ELSE 1)

\* bad = (given>0) & ((np.abs(given-calc) / np.where(given!=0, given, 1)) > tol);
\* the tolerance is the fraction tol.num / tol.den, and the divisor is positive
\* wherever given > 0, so the quotient is compared by cross-multiplication
AuditBad(given, calc, tol) ==
    /\ given > 0
    /\ LET d == IF given # 0 THEN given ELSE 1
       IN  Abs(given - calc) * tol.den > tol.num * d

\* the events of one (given_col, calc_col) pair of the audit
AuditEvents(out, given_col, calc_col, tol) ==
    LET has    == \A k \in 1..Len(out) :
                     given_col \in DOMAIN out[k].cells /\ calc_col \in DOMAIN out[k].cells
        Bad(c) == AuditBad(FillNa0(c[given_col]), FillNa0(c[calc_col]), tol)
        Ev(c)  == qa_event(c, calc_col, "eur_mismatch", Str(c[given_col]), Str(c[calc_col]),
                           "Analytics", "P3")
    IN  IF ~has THEN <<>>
        ELSE Loc([k \in 1..Len(out) |-> Ev(out[k].cells)],
                 [k \in 1..Len(out) |-> Bad(out[k].cells)])

\* fx_merge_and_derive(plans, rules, fx_df, qa); rules is fx_rules:
\* compute_pairs a sequence of [cur, mapping], audit = [enabled, tol]
fx_merge_and_derive(plans, rules, fx_df) ==
    LET out0  == FxKeysLeft(plans)
        fx    == FxKeysRight(NormaliseRef(fx_df, FxRefCols))
        m     == LeftMerge(out0, fx, FxKeyCols, FxKeyCols)
        out1  == [i \in 1..Len(out0) |->
                    [out0[i] EXCEPT !.cells =
                        SetCol(SetCol(@, "fx_to_eur", RateByLabel(m, out0[i].label, "fx_to_eur")),
                               "fx_to_dkk", RateByLabel(m, out0[i].label, "fx_to_dkk"))]]
        Miss(c) == c["fx_to_eur"] = NaN \/ c["fx_to_dkk"] = NaN
        EvMiss(c) == qa_event(c, "FX", "fx_missing",
                              c["Market"] \o "/" \o c["Currency"] \o "/" \o c["FX_Year"],
                              "", "Analytics", "P1")
        out   == [i \in 1..Len(out1) |->
                    [out1[i] EXCEPT !.cells = DerivePairs(@, rules.compute_pairs)]]
        audit == IF rules.audit.enabled
                 THEN AuditEvents(out, checks[1][1], checks[1][2], rules.audit.tol)
                      \o AuditEvents(out, checks[2][1], checks[2][2], rules.audit.tol)
                      \o AuditEvents(out, checks[3][1], checks[3][2], rules.audit.tol)
                 ELSE <<>>
    IN  [out    |-> out,
         events |-> Loc([k \in 1..Len(out1) |-> EvMiss(out1[k].cells)],
                        [k \in 1..Len(out1) |-> Miss(out1[k].cells)]) \o audit,
         ok     |-> TRUE]

-----------------------------------------------------------------------------
(* cbht_join                                                               *)

CbRefCols == <<"brand", "market", "fx_year", "brand_league">>

\* lkmap.get(k, k)
lkmap(k) ==
    IF k = "Brand_clean" THEN "brand"
    ELSE IF k = "Market" THEN "market"
    ELSE IF k = "FX_Year" THEN "fx_year"
    ELSE k

\* `for keys in order`; m.loc[fill, "brand_league"] raises IndexingError unless
\* the labels of out are those of m, and then label and position agree
RECURSIVE CbhtOrder(_, _, _)
CbhtOrder(acc, cb, order) ==
    IF order = <<>> \/ ~acc.ok THEN acc
    ELSE LET keys     == Head(order)
             right_on == [k \in 1..Len(keys) |-> lkmap(keys[k])]
             m        == LeftMerge(acc.out, cb, keys, right_on)
         IN  IF ~Aligned(acc.out, m)
             THEN [acc EXCEPT !.ok = FALSE]
             ELSE CbhtOrder([acc EXCEPT !.out = FillByLabel(acc.out, m, "brand_league",
                                                            "CBHT_Brand_League", CbRefCols)],
                            cb, Tail(order))

\* cbht_join(plans, rules, cb_df, qa); order is join_keys_order
cbht_join(plans, order, cb_df) ==
    LET out0 == EnsureCols(plans, <<"CBHT_Brand_League">>)
        cb   == NormaliseRef(cb_df, CbRefCols)
        r    == CbhtOrder([out |-> out0, events |-> <<>>, ok |-> TRUE], cb, order)
        Miss(c) == Blank(c["CBHT_Brand_League"])
        Ev(c) == qa_event(c, "CBHT_Brand_League", "cbht_missing", c["Brand_clean"], "",
                          "Insights", "P2")
    IN  IF r.ok
        THEN [out |-> r.out, events |-> Loc([k \in 1..Len(r.out) |-> Ev(r.out[k].cells)],
                                            [k \in 1..Len(r.out) |-> Miss(r.out[k].cells)]),
              ok |-> TRUE]
        ELSE [out |-> plans, events |-> <<>>, ok |-> FALSE]

-----------------------------------------------------------------------------
(* process_plans on one plans file: inputs                                 *)

ActualCol == "Total Cost to Client Actual (Local)"

\* ov where it is defined, cells elsewhere
Override(cells, ov) == ov @@ cells

\* a row of the sheet as read: the needed columns exist, dates and numeric
\* columns are coerced.  FX_Year is a text column of the sheet.
RowAcme ==
    ("FX_Year" :> "2025") @@ ("Currency" :> "dkk") @@ ("Region" :> "EU")
    @@ ("Market" :> "DK") @@ ("Brand" :> "Acme") @@ ("Variant" :> "")
    @@ ("Channel" :> "Digital") @@ ("Sub-Channel" :> "Search")
    @@ ("Channel Finance Group" :> "") @@ ("Vendor" :> "Goog")
    @@ ("Campaign Name" :> "Spring") @@ ("Objective" :> "")
    @@ ("Buying Model" :> "Fixed Cost") @@ ("Innovation" :> "No")
    @@ ("Inventory Buy" :> "No") @@ ("Creative Source" :> "Agency")
    @@ ("Start Date" :> "2025-03-01") @@ ("End Date" :> "2025-03-31")
    @@ ("Plan ID" :> "") @@ ("Plan Name" :> "Acme Q1") @@ ("Plan Status" :> "Planned")
    @@ (LocalCostCol :> 97) @@ (GlobalCostCol :> 100) @@ (ActualCol :> NaN)

RowBolt ==
    Override(RowAcme,
        ("Currency" :> "USD") @@ ("Region" :> "NA") @@ ("Market" :> "US")
        @@ ("Brand" :> "Bolt") @@ ("Channel" :> "TV") @@ ("Sub-Channel" :> "Linear")
        @@ ("Channel Finance Group" :> "Offline") @@ ("Vendor" :> "Unknown")
        @@ ("Campaign Name" :> "Nope") @@ ("Objective" :> "Reach")
        @@ ("Plan Name" :> "bolt promo") @@ (LocalCostCol :> 99) @@ (ActualCol :> 99))

RowNope ==
    Override(RowAcme,
        ("Currency" :> "DKK") @@ ("Region" :> "APAC") @@ ("Brand" :> "Nope")
        @@ ("Channel Finance Group" :> "Online") @@ ("Vendor" :> "Goog ")
        @@ ("Objective" :> "Sales") @@ ("Start Date" :> NaT)
        @@ ("End Date" :> "2025-06-30") @@ ("Plan Name" :> "") @@ ("Plan Status" :> " ")
        @@ (LocalCostCol :> 50) @@ (GlobalCostCol :> 0) @@ (ActualCol :> 0))

RowCancelled == Override(RowAcme, ("Plan Status" :> "Cancelled"))

RowEmpty ==
    Override(RowAcme,
        ("Start Date" :> NaT) @@ ("End Date" :> NaT)
        @@ (LocalCostCol :> 0) @@ (GlobalCostCol :> NaN))

SheetRows == {RowAcme, RowBolt, RowNope, RowCancelled, RowEmpty}

MaxBatch == 3

PlanIds == <<"P0", "P1", "P2", "P3", "P4">>

\* the frame read_excel_first returns for a sheet: labels 0, 1, 2, ...; the
\* sheets of the model give every row its own Plan ID
ReadFrame(rows) ==
    [i \in 1..Len(rows) |->
        [label |-> i - 1, cells |-> Override(rows[i], "Plan ID" :> PlanIds[i])]]

Sheets == SeqsUpTo(SheetRows, MaxBatch) \ {<<>>}

\* rules.yaml
Rules ==
    [date_placeholders |-> [start_if_missing |-> TRUE, end_if_missing |-> TRUE],
     fills |-> << <<"Objective", "Awareness">>, <<"Buying Model", "Fixed Cost">>,
                  <<"Innovation", "No">>, <<"Inventory Buy", "No">>,
                  <<"Creative Source", "Locally Produced Asset">> >>,
     allowed_objectives |-> {"Awareness", "Sales"},
     region_check |-> TRUE,
     brand_mapping |->
        [precedence |-> << <<"raw_brand", "market">>, <<"raw_brand">> >>,
         outputs |-> << <<"brand_clean", "Brand_clean">>, <<"brand_type", "Brand_Type">>,
                        <<"category", "Category_clean">>,
                        <<"subcategory", "SubCategory_clean">>,
                        <<"variant", "Variant_clean">> >>,
         hints |-> << [k |-> "Bolt Inc", rgx |-> "bolt"] >>],
     prefer_key |-> "Sub-Channel",
     campaign_mapping |->
        [precedence |-> << <<"raw_campaign", "market", "brand">>, <<"raw_campaign">> >>,
         outputs |-> << <<"campaign_clean", "Campaign_clean">>,
                        <<"campaign_type", "Campaign_Type">>,
                        <<"campaign_subtype", "Campaign_SubType">> >>],
     actualisation_backfill |->
        [enabled |-> TRUE,
         scopes |-> << [a |-> ActualCol, p |-> LocalCostCol, flag |-> "missing_actualisation"],
                       [a |-> None, p |-> None, flag |-> "missing_actualisation"] >>],
     fx_rules |->
        [compute_pairs |->
            << [cur |-> "EUR", mapping |-> << <<LocalCostCol, "Planned_Spend_EUR">>,
                                              <<ActualCol, "Actualised_Spend_EUR">> >>],
               [cur |-> "DKK", mapping |-> << <<LocalCostCol, "Planned_Spend_DKK">> >>] >>,
         audit |-> [enabled |-> TRUE, tol |-> [num |-> TolNum, den |-> TolDen]]],
     join_keys_order |-> << <<"Brand_clean", "Market", "FX_Year">>,
                            <<"Brand_clean", "Market">>, <<"Brand_clean">> >>]

\* brands.csv
BrandAcmeDK ==
    ("raw_brand" :> "Acme") @@ ("market" :> "DK") @@ ("brand_clean" :> "Acme Corp")
    @@ ("brand_type" :> "Core")
BrandAcmeGlobal ==
    ("raw_brand" :> "Acme") @@ ("market" :> "") @@ ("brand_clean" :> "Acme Global")
    @@ ("brand_type" :> "Intl") @@ ("category" :> "Snacks")
BrandBolt ==
    ("raw_brand" :> "Bolt") @@ ("market" :> "") @@ ("brand_clean" :> "Bolt Inc")
    @@ ("brand_type" :> "Core")

BrandTables == {<<BrandAcmeDK, BrandAcmeGlobal, BrandBolt>>, <<BrandAcmeDK, BrandBolt>>}

\* fx_rates.csv
FxDK ==
    ("market" :> "DK") @@ ("currency" :> "DKK") @@ ("fx_year" :> "2025")
    @@ ("fx_to_eur" :> "1") @@ ("fx_to_dkk" :> "7") @@ ("region" :> "EU")
FxUS ==
    ("market" :> "US") @@ ("currency" :> "usd") @@ ("fx_year" :> "2025")
    @@ ("fx_to_eur" :> "1") @@ ("fx_to_dkk" :> "7") @@ ("region" :> "NA")

FxTables == {<<FxDK>>, <<FxDK, FxUS>>}

\* vendors.csv, channels.csv, campaigns.csv
VendorsCsv ==
    << ("raw_vendor" :> "Goog") @@ ("vendor_clean" :> "Google")
       @@ ("vendor_house" :> "Alphabet") @@ ("vendor_type" :> "Digital") >>

ChannelsCsv ==
    << ("Channel Finance Group" :> "Online") @@ ("Channel" :> "Digital")
       @@ ("Sub-Channel" :> "Search") @@ ("ExComChannel" :> "Dig") >>

CampaignsCsv ==
    << ("raw_campaign" :> "Spring") @@ ("market" :> "DK") @@ ("brand" :> "Acme Corp")
       @@ ("campaign_clean" :> "Spring Sale") @@ ("campaign_type" :> "Promo"),
       ("raw_campaign" :> "Spring") @@ ("market" :> "") @@ ("brand" :> "")
       @@ ("campaign_clean" :> "Spring Generic") >>

\* cbht.csv
CbhtAcmeDK ==
    ("brand" :> "Acme Corp") @@ ("market" :> "DK") @@ ("fx_year" :> "2025")
    @@ ("brand_league" :> "Gold")
CbhtBolt ==
    ("brand" :> "Bolt Inc") @@ ("market" :> "US") @@ ("fx_year" :> "2025")
    @@ ("brand_league" :> "Silver")
CbhtAcme ==
    ("brand" :> "Acme Corp") @@ ("market" :> "") @@ ("fx_year" :> "")
    @@ ("brand_league" :> "Bronze")

CbhtTables == {<<CbhtAcmeDK, CbhtBolt>>, <<CbhtAcmeDK, CbhtAcme, CbhtBolt>>}

-----------------------------------------------------------------------------
(* process_plans on one plans file: the run                                *)
(*                                                                         *)
(* stage is the step of the loop body that ran last, df the frame after it,*)
(* prev the frame it was given, qa the ledger, ref the reference tables.   *)
(* A table with several candidates is drawn where the run first uses it.   *)
(* A step that raises ends the run: stage becomes "aborted".               *)

\* two_pass_brand is not running
BrandIdle ==
    /\ tax = <<>>
    /\ idx = <<>>
    /\ canon_list = <<>>
    /\ bpc = "idle"
    /\ res = EmptyRes

\* after read_excel_first, the needed columns and the coercions
Init ==
    /\ BrandIdle
    /\ \E rows \in Sheets : df = ReadFrame(rows)
    /\ prev = <<>>
    /\ qa = <<>>
    /\ ref = [fx |-> <<>>, brands |-> <<>>, vendors |-> VendorsCsv,
              chans |-> ChannelsCsv, camps |-> CampaignsCsv, cbht |-> <<>>]
    /\ stage = "read"
    /\ frames = <<>>
    /\ SplitIdle
    /\ NormIdle

\* the candidates of a reference table: the table is read once, before the
\* first file, so a table already drawn stays what it is
Drawn(t, candidates) == IF t = <<>> THEN candidates ELSE {t}

\* a step that keeps only the events of the latest stage
StepLedgerPerStage(r, name) ==
    /\ prev' = df
    /\ qa' = r.events
    /\ df' = IF r.ok THEN r.out ELSE df
    /\ stage' = IF r.ok THEN name ELSE "aborted"
    /\ UNCHANGED frames
    /\ UNCHANGED brandVars
    /\ UNCHANGED splitVars
    /\ UNCHANGED normVars

\* the effect of a step with result r = [out, events, ok]
Step(r, name) ==
    /\ prev' = df
    /\ qa' = qa \o r.events
    /\ df' = IF r.ok THEN r.out ELSE df
    /\ stage' = IF r.ok THEN name ELSE "aborted"
    /\ UNCHANGED frames
    /\ UNCHANGED brandVars
    /\ UNCHANGED splitVars
    /\ UNCHANGED normVars

PlanStatus ==
    /\ stage = "read"
    /\ Step(StatusStage(df), "status")
    /\ UNCHANGED ref

DatePlaceholders ==
    /\ stage = "status"
    /\ Step(DatesStage(df, Rules.date_placeholders), "dates")
    /\ UNCHANGED ref

\* "Defaults / temporary fills", "Objective whitelist", region_check
Defaults ==
    /\ stage = "dates"
    /\ \E fx \in Drawn(ref.fx, FxTables) :
        LET d == DefaultsLoop([out |-> df, events |-> <<>>, ok |-> TRUE], Rules.fills)
            o == ObjectiveStage(d.out, Rules.allowed_objectives)
            g == region_check(o.out, Rules.region_check, fx)
        IN  /\ Step([out |-> g.out, events |-> d.events \o o.events \o g.events,
                     ok |-> TRUE], "defaults")
            /\ ref' = [ref EXCEPT !.fx = fx]

BrandsMap ==
    /\ stage = "defaults"
    /\ \E b \in Drawn(ref.brands, BrandTables) :
        /\ Step(brands_map(df, Rules.brand_mapping, b), "brands")
        /\ ref' = [ref EXCEPT !.brands = b]

VendorsMap ==
    /\ stage = "brands"
    /\ Step(vendors_map(df, ref.vendors), "vendors")
    /\ UNCHANGED ref

ChannelsMap ==
    /\ stage = "vendors"
    /\ Step(channels_map(df, Rules.prefer_key, ref.chans), "channels")
    /\ UNCHANGED ref

CampaignsMap ==
    /\ stage = "channels"
    /\ Step(campaigns_map(df, Rules.campaign_mapping, ref.camps), "campaigns")
    /\ UNCHANGED ref

Backfill ==
    /\ stage = "campaigns"
    /\ Step(actualisation_backfill(df, Rules.actualisation_backfill), "backfill")
    /\ UNCHANGED ref

FxMergeAndDerive ==
    /\ stage = "backfill"
    /\ Step(fx_merge_and_derive(df, Rules.fx_rules, ref.fx), "fx")
    /\ UNCHANGED ref

CbhtJoin ==
    /\ stage = "fx"
    /\ \E cb \in Drawn(ref.cbht, CbhtTables) :
        /\ Step(cbht_join(df, Rules.join_keys_order, cb), "cbht")
        /\ ref' = [ref EXCEPT !.cbht = cb]

Next ==
    \/ PlanStatus
    \/ DatePlaceholders
    \/ Defaults
    \/ BrandsMap
    \/ VendorsMap
    \/ ChannelsMap
    \/ CampaignsMap
    \/ Backfill
    \/ FxMergeAndDerive
    \/ CbhtJoin

Spec == Init /\ [][Next]_vars

-----------------------------------------------------------------------------
(* Properties of the mapping stages, under Spec                            *)

\* the cells a row of df had when the stage that ran last was given it
Before(row) == prev[CHOOSE k \in 1..Len(prev) : prev[k].label = row.label].cells

\* the stage made a blank (or absent) target field non-blank
Filled(row, dst) ==
    /\ dst \notin DOMAIN Before(row) \/ Blank(Before(row)[dst])
    /\ ~Blank(row.cells[dst])

\* a precedence list as pairs <<column of the record, column of the reference row>>
BrandPairs ==
    [p \in 1..Len(Rules.brand_mapping.precedence) |->
        [k \in 1..Len(Rules.brand_mapping.precedence[p]) |->
            <<BrandLeftKey(Rules.brand_mapping.precedence[p][k]),
              Rules.brand_mapping.precedence[p][k]>>]]

CampPairs ==
    [p \in 1..Len(Rules.campaign_mapping.precedence) |->
        [k \in 1..Len(Rules.campaign_mapping.precedence[p]) |->
            <<CampLeftKey(Rules.campaign_mapping.precedence[p][k]),
              Rules.campaign_mapping.precedence[p][k]>>]]

CbhtPairs ==
    [p \in 1..Len(Rules.join_keys_order) |->
        [k \in 1..Len(Rules.join_keys_order[p]) |->
            <<Rules.join_keys_order[p][k], lkmap(Rules.join_keys_order[p][k])>>]]

\* the join of the mapping stage that ran last: the reference table as the stage
\* normalises it, its key-sets in order, its <<source, target>> columns and the
\* issue it reports for a record with no mapping
StageJoin ==
    IF stage = "brands"
    THEN [table |-> NormaliseRef(ref.brands, BrandRefCols), precedence |-> BrandPairs,
          outputs |-> Rules.brand_mapping.outputs, issue |-> "brand_unmapped"]
    ELSE IF stage = "vendors"
    THEN [table |-> NormaliseRef(ref.vendors, VendorRefCols),
          precedence |-> << << <<"_raw_vendor", "raw_vendor">> >> >>,
          outputs |-> VendorOutputs, issue |-> "vendor_unmapped"]
    ELSE IF stage = "channels"
    THEN [table |-> NormaliseRef(ref.chans, ChanRefCols),
          precedence |-> << << <<"Sub-Channel", "Sub-Channel">> >>,
                            << <<"Channel", "Channel">> >> >>,
          outputs |-> ChanOutputs, issue |-> "channel_unmapped"]
    ELSE IF stage = "campaigns"
    THEN [table |-> NormaliseRef(ref.camps, CampRefCols), precedence |-> CampPairs,
          outputs |-> Rules.campaign_mapping.outputs, issue |-> "campaign_unmapped"]
    ELSE IF stage = "cbht"
    THEN [table |-> NormaliseRef(ref.cbht, CbRefCols), precedence |-> CbhtPairs,
          outputs |-> << <<"brand_league", "CBHT_Brand_League">> >>,
          issue |-> "cbht_missing"]
    ELSE [table |-> <<>>, precedence |-> <<>>, outputs |-> <<>>, issue |-> ""]

\* the positions of the reference rows whose key columns equal the record's, for
\* one key-set
MatchSet(c, table, pairs) ==
    {j \in 1..Len(table) : \A k \in 1..Len(pairs) : c[pairs[k][1]] = table[j][pairs[k][2]]}

\* C2: in the precedence joins, a record that matches one reference row under k1
\* and a different one under k2 holds the k1 row's value in every target field
\* for which the k1 row has a non-blank value.
C2_EarlierRuleWins ==
    stage \in {"brands", "campaigns", "cbht"} =>
        \A i \in 1..Len(df) :
            LET J  == StageJoin
                M1 == MatchSet(df[i].cells, J.table, J.precedence[1])
                M2 == MatchSet(df[i].cells, J.table, J.precedence[2])
            IN  (Cardinality(M1) = 1 /\ M2 \ M1 # {}) =>
                    \A j \in M1 : \A o \in 1..Len(J.outputs) :
                        (J.table[j][J.outputs[o][1]] # "" /\ Filled(df[i], J.outputs[o][2]))
                            => df[i].cells[J.outputs[o][2]] = J.table[j][J.outputs[o][1]]

\* C3: after a mapping stage, on batches with dropped rows too, every target field
\* the stage filled holds the mapped column of a reference row whose join keys
\* equal that record's own source columns exactly.
C3_ExactJoinOnly ==
    \A i \in 1..Len(df) : \A o \in 1..Len(StageJoin.outputs) :
        Filled(df[i], StageJoin.outputs[o][2]) =>
            \E p \in 1..Len(StageJoin.precedence) :
                \E j \in MatchSet(df[i].cells, StageJoin.table, StageJoin.precedence[p]) :
                    StageJoin.table[j][StageJoin.outputs[o][1]]
                        = df[i].cells[StageJoin.outputs[o][2]]

\* the ledger holds an event of the issue for the record
HasEvent(c, issue) ==
    \E e \in 1..Len(qa) : qa[e].Issue_Type = issue /\ qa[e].Plan_ID = c["Plan ID"]

\* C4: a record that matches no reference row under any precedence rule leaves
\* the mapping stage with all of the stage's target fields blank, and the stage
\* appends an unmapped / missing event for it.
C4_UnmatchedBlankAndReported ==
    StageJoin.outputs # <<>> =>
        \A i \in 1..Len(df) :
            (\A p \in 1..Len(StageJoin.precedence) :
                MatchSet(df[i].cells, StageJoin.table, StageJoin.precedence[p]) = {})
            => /\ \A o \in 1..Len(StageJoin.outputs) :
                    Blank(df[i].cells[StageJoin.outputs[o][2]])
               /\ HasEvent(df[i].cells, StageJoin.issue)

-----------------------------------------------------------------------------
(* Properties of fx_merge_and_derive, under Spec                           *)

\* the rate table has a row for the record's market, upper-cased currency and year
HasRate(c) ==
    \E j \in 1..Len(ref.fx) :
        /\ Strip(ref.fx[j]["market"]) = Strip(c["Market"])
        /\ Upper(Strip(ref.fx[j]["currency"])) = Upper(Strip(c["Currency"]))
        /\ Strip(ref.fx[j]["fx_year"]) = Strip(c["FX_Year"])

DerivedCols == {"Planned_Spend_EUR", "Actualised_Spend_EUR", "Planned_Spend_DKK"}

\* C9: a record whose (market, upper-cased currency, fiscal year) is not in the rate
\* table gets an fx_missing event of priority P1, and each of its derived
\* converted columns is not-a-number, not zero.
C9_MissingRateIsNaN ==
    stage = "fx" =>
        \A i \in 1..Len(df) :
            ~HasRate(df[i].cells) =>
                /\ \E e \in 1..Len(qa) :
                      /\ qa[e].Issue_Type = "fx_missing"
                      /\ qa[e].Plan_ID = df[i].cells["Plan ID"]
                      /\ qa[e].Priority = "P1"
                /\ \A d \in DerivedCols : df[i].cells[d] = NaN

\* the ledger holds an eur_mismatch event on the computed column for the record
Flagged(c, calc_col) ==
    \E e \in 1..Len(qa) :
        /\ qa[e].Issue_Type = "eur_mismatch"
        /\ qa[e].Field = calc_col
        /\ qa[e].Plan_ID = c["Plan ID"]

\* C10: in the audit a record is flagged eur_mismatch on a (reported, computed)
\* pair iff the reported value is strictly positive and
\* |reported - computed| / reported is strictly greater than the tolerance, 2%.
C10_AuditFlagsIffBeyondTolerance ==
    stage = "fx" =>
        \A i \in 1..Len(df) :
            LET c        == df[i].cells
                reported == c[GlobalCostCol]
                computed == c["Planned_Spend_EUR"]
            IN  Flagged(c, "Planned_Spend_EUR")
                    <=> /\ reported # NaN
                        /\ reported > 0
                        /\ Abs(reported - computed) * TolDen > TolNum * reported

\* reported 100 against computed 97 flagged, reported 100 against computed 99 not
\* flagged, and reported 0 against a computed 50 not flagged, in one batch
C10_Witness ==
    /\ stage = "fx"
    /\ \E i \in 1..Len(df) :
          /\ df[i].cells[GlobalCostCol] = 100 /\ df[i].cells["Planned_Spend_EUR"] = 97
          /\ Flagged(df[i].cells, "Planned_Spend_EUR")
    /\ \E i \in 1..Len(df) :
          /\ df[i].cells[GlobalCostCol] = 100 /\ df[i].cells["Planned_Spend_EUR"] = 99
          /\ ~Flagged(df[i].cells, "Planned_Spend_EUR")
    /\ \E i \in 1..Len(df) :
          /\ df[i].cells[GlobalCostCol] = 0 /\ df[i].cells["Planned_Spend_EUR"] = 50
          /\ ~Flagged(df[i].cells, "Planned_Spend_EUR")

\* the keys (scope, normalised alias) a taxonomy row registers: its alias, or
\* its canonical name when the alias is blank, and its canonical name, each
\* globally and, when the row has a market, under the market
RowKeys(r) ==
    LET canon  == Strip(r.brand_canonical)
        alias  == IF Strip(r.alias) # "" THEN Strip(r.alias) ELSE canon
        market == Strip(r.market)
        names  == {norm(alias), norm(canon)}
    IN  IF canon = "" THEN {}
        ELSE {<<None, n>> : n \in names}
             \cup (IF market # "" THEN {<<norm(market), n>> : n \in names} ELSE {})

\* C19: the index is first-seen-wins: every stored key holds the canonical name
\* of the earliest taxonomy row, in table order, that registers the key
\* through its alias or its own canonical name; every key a row registers is
\* stored once; rows with a blank canonical register nothing.
C19_FirstSeenWins ==
    bpc \in {"loop", "row"} =>
        /\ \A k \in 1..Len(idx) :
            \E i \in 1..Len(tax) :
                /\ <<idx[k].mk, idx[k].alias>> \in RowKeys(tax[i])
                /\ idx[k].canon = Strip(tax[i].brand_canonical)
                /\ \A j \in 1..(i - 1) : <<idx[k].mk, idx[k].alias>> \notin RowKeys(tax[j])
        /\ \A i \in 1..Len(tax) : \A key \in RowKeys(tax[i]) : IdxHas(idx, key[1], key[2])
        /\ \A k, l \in 1..Len(idx) :
            idx[k].mk = idx[l].mk /\ idx[k].alias = idx[l].alias => k = l

\* two rows register the global key 'acme' with different canonical names, and
\* the index holds the name of the first; a row with a blank canonical is in
\* the table of another reachable state
C19_Witness ==
    /\ bpc = "loop"
    /\ Len(tax) = 2
    /\ <<None, "acme">> \in RowKeys(tax[1]) \cap RowKeys(tax[2])
    /\ Strip(tax[1].brand_canonical) # Strip(tax[2].brand_canonical)
    /\ IdxGet(idx, None, "acme") = Strip(tax[1].brand_canonical)

-----------------------------------------------------------------------------
(* process_plans over several plans files                                  *)
(*                                                                         *)
(* The reference tables are read once, before the loop over the files; the *)
(* loop body is the chain of stages above; after the last file the frames  *)
(* are concatenated and de-duplicated, and the ledger becomes a table.     *)

MaxFiles == 2

\* a row with a missing start date and a blank FX_Year: the sheet has no
\* FX_Year column and the file name no year
RowNoYear == Override(RowNope, ("FX_Year" :> ""))

\* the sheets of the plans files of a run
FileSheets ==
    { <<RowAcme, RowCancelled>>, <<RowBolt>>, <<RowNope, RowAcme>>, <<RowEmpty, RowBolt>>,
      <<RowNoYear, RowAcme>> }

\* pd.concat(frames, ignore_index=True): the rows in order, relabelled 0, 1, ...
RECURSIVE Flatten(_)
Flatten(fs) == IF fs = <<>> THEN <<>> ELSE Head(fs) \o Flatten(Tail(fs))

Concat(fs) ==
    LET rows == Flatten(fs)
    IN  [i \in 1..Len(rows) |-> [label |-> i - 1, cells |-> rows[i].cells]]

\* DataFrame.drop_duplicates(): a row equal to an earlier row is dropped, the
\* rows kept keep their labels
DropDuplicates(frame) ==
    Loc(frame, [i \in 1..Len(frame) |->
                   \A j \in 1..(i - 1) : frame[j].cells # frame[i].cells])

InitRun ==
    /\ BrandIdle
    /\ \E rows \in FileSheets : df = ReadFrame(rows)
    /\ prev = <<>>
    /\ qa = <<>>
    /\ \E fx \in FxTables, b \in BrandTables, cb \in CbhtTables :
        ref = [fx |-> fx, brands |-> b, vendors |-> VendorsCsv,
               chans |-> ChannelsCsv, camps |-> CampaignsCsv, cbht |-> cb]
    /\ stage = "read"
    /\ frames = <<>>
    /\ SplitIdle
    /\ NormIdle

\* frames.append(df), then the head of the loop body on the next file
NextFile ==
    /\ stage = "cbht"
    /\ Len(frames) + 1 < MaxFiles
    /\ frames' = Append(frames, df)
    /\ \E rows \in FileSheets : df' = ReadFrame(rows)
    /\ prev' = <<>>
    /\ stage' = "read"
    /\ UNCHANGED <<qa, ref>>
    /\ UNCHANGED brandVars
    /\ UNCHANGED splitVars
    /\ UNCHANGED normVars

\* frames.append(df) for the last file, then the tail of process_plans
Finish ==
    /\ stage = "cbht"
    /\ frames' = Append(frames, df)
    /\ df' = DropDuplicates(Concat(frames'))
    /\ prev' = df
    /\ stage' = "done"
    /\ UNCHANGED <<qa, ref>>
    /\ UNCHANGED brandVars
    /\ UNCHANGED splitVars
    /\ UNCHANGED normVars

NextRun == Next \/ NextFile \/ Finish

SpecRun == InitRun /\ [][NextRun]_vars

IsPrefix(s, t) == Len(s) <= Len(t) /\ SubSeq(t, 1, Len(s)) = s

\* C11: the ledger is append-only over a whole run: across every step of
\* every file, the ledger before the step is a prefix of the ledger after it.
C11_LedgerAppendOnly == [][IsPrefix(qa, qa')]_vars

\* a finished run over two files whose second file repeated rows of the first:
\* the ledger still holds the event of the cancelled row the first file
\* dropped, and events of rows that de-duplication removed
C11_Witness ==
    /\ stage = "done"
    /\ Len(frames) = 2
    /\ Len(df) < Len(frames[1]) + Len(frames[2])
    /\ \E k \in 1..Len(qa) : qa[k].Issue_Type = "row_dropped_cancelled"

-----------------------------------------------------------------------------
(* The daily expanders: split_daily_budgets.py and split_daily_plans.py    *)
(*                                                                         *)
(* A cell of the expanders' sheets is a tagged value: Txt(s) a text, Num a *)
(* number, Missing an empty cell, Ts a parsed date, NaTs an unparsed one.  *)
(* A number is the exact fraction a / b with b > 0, so that a share        *)
(* value / n is exact; the rounding of floats is not modelled.             *)

Txt(s) == <<"txt", s>>
Num(a, b) == <<"num", a, b>>
Missing == <<"nan">>
Ts(day, tod) == <<"ts", day, tod>>
NaTs == <<"nat">>
PyNone == <<"none">>

IsNum(v) == v[1] = "num"
IsTxt(v) == v[1] = "txt"

\* pd.isna
IsNa(v) == v \in {Missing, NaTs, PyNone}

\* a == b on numbers
NumEq(v, w) == v[2] * w[3] = w[2] * v[3]

\* a + b on numbers
NumAdd(v, w) == Num(v[2] * w[3] + w[2] * v[3], v[3] * w[3])

\* val / n
NumDiv(v, n) == Num(v[2], v[3] * n)

\* the proleptic Gregorian calendar of datetime: a day is its ordinal
IsLeap(y) == (y % 4 = 0 /\ y % 100 # 0) \/ y % 400 = 0

DaysBeforeYear(y) == 365 * (y - 1) + ((y - 1) \div 4) - ((y - 1) \div 100) + ((y - 1) \div 400)

MonthDays(y) ==
    <<31, IF IsLeap(y) THEN 29 ELSE 28, 31, 30, 31, 30, 31, 31, 30, 31, 30, 31>>

RECURSIVE DaysBeforeMonth(_, _)
DaysBeforeMonth(y, m) ==
    IF m = 1 THEN 0 ELSE DaysBeforeMonth(y, m - 1) + MonthDays(y)[m - 1]

Ordinal(y, m, d) == DaysBeforeYear(y) + DaysBeforeMonth(y, m) + d

\* pd.Timestamp(y, m, d): midnight of the day
Timestamp(y, m, d) == Ts(Ordinal(y, m, d), 0)

\* Timestamp.normalize(): the time of day is dropped
Normalize(t) == Ts(t[2], 0)

\* pd.date_range(s, e, freq="D") of two midnights: every day from s to e,
\* and no day at all when e is before s
date_range(s, e) ==
    IF e[2] < s[2] THEN <<>>
    ELSE [i \in 1..(e[2] - s[2] + 1) |-> Ts(s[2] + i - 1, 0)]

\* max(1, len(days)) + 1
DayCountPlusOne(days) == IF Len(days) < 1 THEN 2 ELSE Len(days) + 1

\* max(1, len(days))
DayCount(days) == IF Len(days) < 1 THEN 1 ELSE Len(days)

\* str(n) of an integer
RECURSIVE NatText(_)
NatText(n) ==
    IF n < 10 THEN Ch(Digits, n + 1) ELSE NatText(n \div 10) \o Ch(Digits, (n % 10) + 1)

IntText(n) == IF n < 0 THEN "-" \o NatText(0 - n) ELSE NatText(n)

\* str(x) of a cell: the numbers of the model's sheets are integers
CellText(v) ==
    IF IsTxt(v) THEN v[2]
    ELSE IF IsNum(v) THEN IntText(v[2])
    ELSE IF v = PyNone THEN "None"
    ELSE IF v = NaTs THEN "NaT" ELSE "nan"

RECURSIVE Pow10(_)
Pow10(k) == IF k = 0 THEN 1 ELSE 10 * Pow10(k - 1)

\* float(s) of a text made of digits, '-', '.', '(' and ')' : an optional
\* sign, digits with at most one point; anything else raises (PyNone)
ParseFloat(s) ==
    LET neg  == s # "" /\ Ch(s, 1) = "-"
        body == IF neg THEN SubSeq(s, 2, Len(s)) ELSE s
        dots == {i \in 1..Len(body) : Ch(body, i) = "."}
        ok   == /\ \A i \in 1..Len(body) : InStr(Ch(body, i), Digits) \/ Ch(body, i) = "."
                /\ \E i \in 1..Len(body) : InStr(Ch(body, i), Digits)
                /\ Cardinality(dots) <= 1
        d    == IF dots = {} THEN Len(body) + 1 ELSE CHOOSE i \in dots : TRUE
        ip   == SubSeq(body, 1, d - 1)
        fp   == SubSeq(body, d + 1, Len(body))
        mag  == DigitsValue(ip \o fp)
    IN  IF ok THEN Num(IF neg THEN 0 - mag ELSE mag, Pow10(Len(fp))) ELSE PyNone

\* unicodedata.normalize("NFKC", s): the no-break space becomes a space and
\* the trademark sign the letters TM
RECURSIVE NFKC(_)
NFKC(s) ==
    IF s = "" THEN ""
    ELSE (IF Ch(s, 1) = NBSP THEN " " ELSE IF Ch(s, 1) = TM THEN "TM" ELSE Ch(s, 1))
         \o NFKC(SubSeq(s, 2, Len(s)))

\* the placeholders parse_number treats as missing (the two dashes outside
\* ASCII are not texts of the model)
NumPlaceholders == {"-", "NA", "N/A", "n/a", "na", "--"}

\* _num_re.sub("", s): what is not a digit, '-', '.', '(' or ')' is removed
RECURSIVE NumReSub(_)
NumReSub(s) ==
    IF s = "" THEN ""
    ELSE (IF InStr(Ch(s, 1), "0123456789-.()") THEN Ch(s, 1) ELSE "")
         \o NumReSub(SubSeq(s, 2, Len(s)))

\* parse_number(x) of split_daily_budgets.py
parse_number(x) ==
    IF IsNa(x) THEN PyNone
    ELSE LET s0 == Strip(CellText(x))
             s1 == NFKC(s0)
             s2 == NumReSub(s1)
             s3 == IF s2 # "" /\ Ch(s2, 1) = "(" /\ Ch(s2, Len(s2)) = ")"
                   THEN "-" \o SubSeq(s2, 2, Len(s2) - 1) ELSE s2
         IN  IF s0 = "" THEN PyNone
             ELSE IF s1 \in NumPlaceholders THEN PyNone
             ELSE IF s2 = "" THEN PyNone
             ELSE ParseFloat(s3)

\* str.replace(",", "")
RECURSIVE DropCommas(_)
DropCommas(s) ==
    IF s = "" THEN ""
    ELSE (IF Ch(s, 1) = "," THEN "" ELSE Ch(s, 1)) \o DropCommas(SubSeq(s, 2, Len(s)))

\* to_float_safe(v) of split_daily_plans.py: float(str(v).replace(",", "").strip()),
\* and v itself when that raises or v is missing
to_float_safe(v) ==
    IF IsNa(v) THEN v
    ELSE LET s == Strip(DropCommas(CellText(v)))
             ok == \A i \in 1..Len(s) : InStr(Ch(s, i), "0123456789-.")
         IN  IF ok /\ ParseFloat(s) # PyNone THEN ParseFloat(s) ELSE v

\* ---- split_daily_budgets.py ----

START_COL == "Min Start Date"
END_COL == "Max End Date"
FX_YEAR_COL == "FX Year"
PLANNED_COL == "Planned (Local)"

PRORATE_COLS ==
    <<"Budget (Local - Updated)", "Budget (Local)", "Planned (Local)",
      "Actualised (Local)", "Budget (EUR)", "Planned (EUR)", "Actualised (EUR)",
      "Budget (DKK)", "Planned (DKK)", "Actualised (DKK)">>

\* the columns of a sheet; a sheet of the model has a row
Columns(frame) == DOMAIN frame[1].cells

\* the subsequence of names that are columns
RECURSIVE Present(_, _)
Present(names, cols) ==
    IF names = <<>> THEN <<>>
    ELSE (IF Head(names) \in cols THEN <<Head(names)>> ELSE <<>>) \o Present(Tail(names), cols)

\* mapped_prorate: the PRORATE_COLS the sheet has
mapped_prorate(frame) == Present(PRORATE_COLS, Columns(frame))

NoYear == 0

\* the years pd.Timestamp can hold
MinYear == 1678
MaxYear == 2261

\* y = int(float(str(fy))), NoYear when that, or pd.Timestamp(y, 1, 1), raises
FallbackYear(cells) ==
    LET fy == IF FX_YEAR_COL \in DOMAIN cells THEN cells[FX_YEAR_COL] ELSE PyNone
        v  == ParseFloat(Strip(CellText(fy)))
        y  == IF v = PyNone THEN 0 ELSE v[2] \div v[3]
    IN  IF v = PyNone \/ y < MinYear \/ y > MaxYear THEN NoYear ELSE y

\* base[col] = 0.0 for every column of cols
RECURSIVE ZeroCols(_, _)
ZeroCols(cells, cols) ==
    IF cols = <<>> THEN cells ELSE ZeroCols(SetCol(cells, Head(cols), Num(0, 1)), Tail(cols))

\* the row of the except branch: the prorated columns 0.0, Date NaT
BudgetsFallbackRow(row, mp) ==
    [name |-> row.name, cells |-> SetCol(ZeroCols(row.cells, mp), "Date", NaTs)]

\* `orig_planned not in (None, "", pd.NA)`: the comparison with pd.NA gives
\* pd.NA, whose truth value raises TypeError, unless None or "" matched first
DebugCheckRaises(cells) ==
    /\ PLANNED_COL \in DOMAIN cells
    /\ cells[PLANNED_COL] # PyNone
    /\ cells[PLANNED_COL] # Txt("")

\* base[col] = 0.0 if parse_number(base[col]) is None else val / n
RECURSIVE ProrateBudget(_, _, _)
ProrateBudget(cells, cols, n) ==
    IF cols = <<>> THEN cells
    ELSE LET val == parse_number(cells[Head(cols)])
         IN  ProrateBudget(SetCol(cells, Head(cols),
                               IF val = PyNone THEN Num(0, 1) ELSE NumDiv(val, n)),
                           Tail(cols), n)

\* `for d in days: rr = base.copy(); rr["Date"] = d; out_rows.append(rr)`
Emit(name, base, days) ==
    [i \in 1..Len(days) |-> [name |-> name, cells |-> SetCol(base, "Date", days[i])]]

\* the rows of a record with the range s..e
BudgetsExpand(row, mp, s, e) ==
    LET days == date_range(Normalize(s), Normalize(e))
        n    == DayCount(days)
    IN  Emit(row.name, ProrateBudget(row.cells, mp, n), days)

\* BudgetsRow with the year of the fallback ending on 30 December
BudgetsRowYearShort(row, mp) ==
    LET s == row.cells[START_COL]
        e == row.cells[END_COL]
        y == FallbackYear(row.cells)
    IN  IF IsNa(s) \/ IsNa(e)
        THEN IF y = NoYear
             THEN [rows |-> <<BudgetsFallbackRow(row, mp)>>,
                   ok |-> ~DebugCheckRaises(row.cells)]
             ELSE [rows |-> BudgetsExpand(row, mp, Timestamp(y, 1, 1), Timestamp(y, 12, 30)),
                   ok |-> TRUE]
        ELSE [rows |-> BudgetsExpand(row, mp, s, e), ok |-> TRUE]

\* an iteration of the loop of main: the rows it appends, and whether it
\* finished without raising
BudgetsRow(row, mp) ==
    LET s == row.cells[START_COL]
        e == row.cells[END_COL]
        y == FallbackYear(row.cells)
    IN  IF IsNa(s) \/ IsNa(e)
        THEN IF y = NoYear
             THEN [rows |-> <<BudgetsFallbackRow(row, mp)>>,
                   ok |-> ~DebugCheckRaises(row.cells)]
             ELSE [rows |-> BudgetsExpand(row, mp, Timestamp(y, 1, 1), Timestamp(y, 12, 31)),
                   ok |-> TRUE]
        ELSE [rows |-> BudgetsExpand(row, mp, s, e), ok |-> TRUE]

\* ---- split_daily_plans.py ----

PlansSTART_COL == "Start_Date"
PlansEND_COL == "End_Date"

PlansPRORATE_COLS ==
    <<"Impressions_Estimate", "Views", "Completed_Views", "Agency_Fee",
      "Total_Cost_to_Client_Actual_Local", "Total_Cost_to_Client_Actual_Global",
      "Total_Cost_to_Client_Local", "Total_Cost_to_Client_Global",
      "Net_Media_Cost_Local", "Net_Media_Cost_Global", "Media_Cost_Gross_Local",
      "Non_Media_Cost_Local", "Production_Costs_Local", "Net_Media_DKK",
      "Planned_Spend_DKK", "Actualised_Spend_DKK">>

\* base[c] = to_float_safe(base[c]), divided by n when that is a number
RECURSIVE ProratePlan(_, _, _)
ProratePlan(cells, cols, n) ==
    IF cols = <<>> THEN cells
    ELSE LET v == to_float_safe(cells[Head(cols)])
         IN  ProratePlan(SetCol(cells, Head(cols), IF IsNum(v) THEN NumDiv(v, n) ELSE v),
                         Tail(cols), n)

\* the pass-through row of a record with a missing date
PlansPassThrough(row) ==
    [name |-> row.name, cells |-> SetCol(row.cells, "Date", NaTs)]

\* an iteration of the loop of main
PlansRow(row) ==
    LET s == row.cells[PlansSTART_COL]
        e == row.cells[PlansEND_COL]
        days == date_range(Normalize(s), Normalize(e))
        n    == DayCount(days)
        cols == Present(PlansPRORATE_COLS, DOMAIN row.cells)
    IN  IF IsNa(s) \/ IsNa(e)
        THEN [rows |-> <<PlansPassThrough(row)>>, ok |-> TRUE]
        ELSE [rows |-> Emit(row.name, ProratePlan(row.cells, cols, n), days), ok |-> TRUE]

\* ---- the sheets of the expanders ----

MaxRecords == 2

Jan(d) == Timestamp(2024, 1, d)

BudgetJan ==
    ("Market" :> Txt("DK")) @@ (START_COL :> Jan(1)) @@ (END_COL :> Jan(3))
    @@ (FX_YEAR_COL :> Num(2024, 1)) @@ (PLANNED_COL :> Num(300, 1))
    @@ ("Budget (Local)" :> Txt("1,200"))

BudgetReversed ==
    Override(BudgetJan,
        (START_COL :> Jan(3)) @@ (END_COL :> Jan(1)) @@ ("Budget (Local)" :> Txt("(50)")))

BudgetNoStart ==
    Override(BudgetJan,
        (START_COL :> NaTs) @@ (FX_YEAR_COL :> Missing) @@ ("Budget (Local)" :> Txt("n/a")))

BudgetNoDates ==
    Override(BudgetJan,
        (START_COL :> NaTs) @@ (END_COL :> NaTs) @@ (FX_YEAR_COL :> Txt("FY24"))
        @@ (PLANNED_COL :> Txt("")) @@ ("Budget (Local)" :> Txt("12.5")))

BudgetYear ==
    Override(BudgetJan,
        (START_COL :> NaTs) @@ (END_COL :> NaTs) @@ (FX_YEAR_COL :> Txt("2024.0"))
        @@ (PLANNED_COL :> Txt("(732)")) @@ ("Budget (Local)" :> Missing))

\* a start that did not parse beside an end that did, in a year of 365 days
BudgetFiscal ==
    Override(BudgetJan,
        (START_COL :> NaTs) @@ (FX_YEAR_COL :> Num(2023, 1)) @@ (PLANNED_COL :> Num(730, 1)))

\* a start with a time of day, on the day of the end
BudgetOneDay ==
    Override(BudgetJan,
        (START_COL :> Ts(Ordinal(2024, 2, 29), 1)) @@ (END_COL :> Timestamp(2024, 2, 29))
        @@ (PLANNED_COL :> Txt("$ 99.50")) @@ ("Budget (Local)" :> Txt("-")))

BudgetRecords ==
    {BudgetJan, BudgetReversed, BudgetNoStart, BudgetNoDates, BudgetYear, BudgetFiscal,
     BudgetOneDay}

\* df.iterrows(): the rows with their index labels 0, 1, 2, ...
Named(rows) == [i \in 1..Len(rows) |-> [name |-> i - 1, cells |-> rows[i]]]

\* the sheet without a column
DropCol(frame, c) ==
    [i \in 1..Len(frame) |->
        [frame[i] EXCEPT !.cells = [x \in DOMAIN frame[i].cells \ {c} |-> frame[i].cells[x]]]]

\* budgets_cleaned.xlsx: with the planned column, or without it
BudgetSheets ==
    LET full == {Named(rows) : rows \in SeqsUpTo(BudgetRecords, MaxRecords) \ {<<>>}}
    IN  full \cup {DropCol(f, PLANNED_COL) : f \in full}

PlanJan ==
    ("Market" :> Txt("DK")) @@ (PlansSTART_COL :> Jan(1)) @@ (PlansEND_COL :> Jan(3))
    @@ ("Planned_Spend_DKK" :> Num(300, 1)) @@ ("Views" :> Txt("1,200"))

PlanReversed ==
    Override(PlanJan, (PlansSTART_COL :> Jan(3)) @@ (PlansEND_COL :> Jan(1)))

PlanNoStart == Override(PlanJan, (PlansSTART_COL :> NaTs))

PlanText ==
    Override(PlanJan,
        (PlansEND_COL :> Ts(Ordinal(2024, 1, 2), 1))
        @@ ("Planned_Spend_DKK" :> Txt("DKK 300")) @@ ("Views" :> Missing))

PlanRecords == {PlanJan, PlanReversed, PlanNoStart, PlanText}

\* plans_cleaned.xlsx
PlanSheets == {Named(rows) : rows \in SeqsUpTo(PlanRecords, MaxRecords) \ {<<>>}}

\* ---- the runs of the expanders ----

InitSplit ==
    /\ BrandIdle
    /\ PipeIdle
    /\ NormIdle
    /\ \/ xpc = [prog |-> "budgets", at |-> "loop"] /\ sdf \in BudgetSheets
       \/ xpc = [prog |-> "plans", at |-> "loop"] /\ sdf \in PlanSheets
    /\ xix = 1
    /\ out_rows = <<>>

\* the effect of an iteration with result r = [rows, ok]
Iterate(r) ==
    /\ out_rows' = out_rows \o r.rows
    /\ xix' = IF r.ok THEN xix + 1 ELSE xix
    /\ xpc' = IF r.ok THEN xpc ELSE [xpc EXCEPT !.at = "aborted"]
    /\ UNCHANGED sdf
    /\ UNCHANGED <<brandVars, pipeVars, normVars>>

BudgetsIter ==
    /\ xpc = [prog |-> "budgets", at |-> "loop"]
    /\ xix <= Len(sdf)
    /\ Iterate(BudgetsRow(sdf[xix], mapped_prorate(sdf)))

PlansIter ==
    /\ xpc = [prog |-> "plans", at |-> "loop"]
    /\ xix <= Len(sdf)
    /\ Iterate(PlansRow(sdf[xix]))

\* after the loop: out = pd.DataFrame(out_rows), the Date column moved behind
\* the end date, the workbook written; the rows and their values stay
WriteDaily ==
    /\ xpc.at = "loop"
    /\ xix > Len(sdf)
    /\ xpc' = [xpc EXCEPT !.at = "written"]
    /\ UNCHANGED <<sdf, xix, out_rows>>
    /\ UNCHANGED <<brandVars, pipeVars, normVars>>

NextSplit == BudgetsIter \/ PlansIter \/ WriteDaily

SpecSplit == InitSplit /\ [][NextSplit]_vars

-----------------------------------------------------------------------------
(* Properties of the daily expanders, under SpecSplit                      *)

\* the loop has finished the record at position k
Done(k) == k < xix

\* the loop has reached the record at position k: finished it, or raised on it
Reached(k) == k < xix \/ (k = xix /\ xpc.at = "aborted")

\* the rows emitted for the record at position k
Emitted(k) == SelectSeq(out_rows, LAMBDA r : r.name = sdf[k].name)

IsBudgets == xpc.prog = "budgets"

StartOf(cells) == IF IsBudgets THEN cells[START_COL] ELSE cells[PlansSTART_COL]
EndOf(cells) == IF IsBudgets THEN cells[END_COL] ELSE cells[PlansEND_COL]

\* the prorated fields the sheet has
Prorated ==
    IF IsBudgets THEN Range(mapped_prorate(sdf))
    ELSE Range(Present(PlansPRORATE_COLS, Columns(sdf)))

\* the parsed value of a cell of a prorated field, as the running expander parses it
Parsed(v) == IF IsBudgets THEN parse_number(v) ELSE to_float_safe(v)

BothParsed(cells) == ~IsNa(StartOf(cells)) /\ ~IsNa(EndOf(cells))

RECURSIVE SumCol(_, _)
SumCol(rows, c) ==
    IF rows = <<>> THEN Num(0, 1) ELSE NumAdd(Head(rows).cells[c], SumCol(Tail(rows), c))

\* C12: for every record whose start and end both parsed, whatever their
\* order, the values of a prorated field summed over the record's emitted rows
\* give the record's original parsed value.
C12_SumReproducesValue ==
    \A k \in 1..Len(sdf) :
        Done(k) /\ BothParsed(sdf[k].cells) =>
            \A c \in Prorated :
                IsNum(Parsed(sdf[k].cells[c])) =>
                    NumEq(SumCol(Emitted(k), c), Parsed(sdf[k].cells[c]))

\* C13: every input record yields at least one emitted row, a record whose end
\* is earlier than its start included.
C13_AtLeastOneRow ==
    \A k \in 1..Len(sdf) : Done(k) => Len(Emitted(k)) >= 1

NoFallback(cells) == (IsNa(StartOf(cells)) \/ IsNa(EndOf(cells))) /\ FallbackYear(cells) = NoYear

IsZero(v) == IsNum(v) /\ v[2] = 0

\* C14: in the budgets expander a record with a missing start or end and no
\* parseable fiscal year yields exactly one row, with a null date and every
\* prorated field the sheet has set to 0, and the expander goes on.
C14_BudgetsFallbackRow ==
    IsBudgets =>
        \A k \in 1..Len(sdf) :
            Reached(k) /\ NoFallback(sdf[k].cells) =>
                /\ xpc.at # "aborted"
                /\ Len(Emitted(k)) = 1
                /\ Emitted(k)[1].cells["Date"] = NaTs
                /\ \A c \in Prorated : IsZero(Emitted(k)[1].cells[c])

\* C15: in the plans expander a record with a missing date yields exactly one
\* pass-through row with a null date whose prorated fields are zero.
C15_PlansPassThroughZero ==
    ~IsBudgets =>
        \A k \in 1..Len(sdf) :
            Done(k) /\ ~BothParsed(sdf[k].cells) =>
                /\ Len(Emitted(k)) = 1
                /\ Emitted(k)[1].cells["Date"] = NaTs
                /\ \A c \in Prorated : IsZero(Emitted(k)[1].cells[c])

\* the calendar days from start to end, both included
InclusiveDays(cells) == EndOf(cells)[2] - StartOf(cells)[2] + 1

\* C18: in the budgets expander a record with parsed dates start <= end and
\* n days in the range yields exactly n rows, dated the n consecutive days
\* from start to end, each carrying parsed_value / n in every prorated field
\* (0 when the value parses to null) and the record's value in every other field.
C18_BudgetsDailyRows ==
    IsBudgets =>
        \A k \in 1..Len(sdf) :
            LET cells == sdf[k].cells
                n == InclusiveDays(cells)
                rows == Emitted(k)
            IN  Done(k) /\ BothParsed(cells) /\ n >= 1 =>
                    /\ Len(rows) = n
                    /\ \A i \in 1..Len(rows) :
                        /\ rows[i].cells["Date"] = Ts(StartOf(cells)[2] + i - 1, 0)
                        /\ \A c \in Prorated :
                            IF parse_number(cells[c]) = PyNone
                            THEN IsZero(rows[i].cells[c])
                            ELSE NumEq(rows[i].cells[c], NumDiv(parse_number(cells[c]), n))
                        /\ \A c \in DOMAIN cells \ Prorated : rows[i].cells[c] = cells[c]
                        /\ DOMAIN rows[i].cells = DOMAIN cells \cup {"Date"}

\* the record from 2024-01-01 to 2024-01-03 with 300 planned has its three
\* rows, each with 100
C18_Witness ==
    /\ IsBudgets
    /\ \E k \in 1..Len(sdf) :
        /\ Done(k)
        /\ sdf[k].cells = BudgetJan
        /\ Len(Emitted(k)) = 3
        /\ \A i \in 1..3 : Emitted(k)[i].cells[PLANNED_COL] = Num(300, 3)
        /\ Emitted(k)[3].cells["Date"] = Jan(3)

-----------------------------------------------------------------------------
(* Properties of the whole run, under SpecRun                              *)

\* C16: no anomaly aborts the run: whatever the sheets and the reference
\* tables hold, no stage raises, and every stage runs to completion.
C16_NeverAborts == stage # "aborted"

-----------------------------------------------------------------------------
(* norm applied on its own                                                 *)
(*                                                                         *)
(* norm is given a text, Txt(s), or None; it is applied to its input and   *)
(* then to its own result.                                                 *)

MaxNormLen == 3

\* the characters of the inputs: a capital, a small letter, the space, the
\* trademark sign, two punctuation marks, an accented letter, the no-break space
NormAlphabet == {"A", "e", " ", TM, "-", ".", EACUTE, NBSP}

\* the texts over the alphabet up to a length
RECURSIVE TextsUpTo(_)
TextsUpTo(n) ==
    IF n = 0 THEN {""}
    ELSE TextsUpTo(n - 1) \cup {s \o c : s \in {t \in TextsUpTo(n - 1) : Len(t) = n - 1},
                                         c \in NormAlphabet}

\* `if s is None: return ""`, `s = str(s)`, then the body of norm
NormOf(v) == IF v = PyNone THEN "" ELSE norm(CellText(v))

InitNorm ==
    /\ BrandIdle
    /\ PipeIdle
    /\ SplitIdle
    /\ nin \in {Txt(s) : s \in TextsUpTo(MaxNormLen) \cup {"Brand" \o TM}} \cup {PyNone}
    /\ nout = <<>>

\* norm(x)
NormApply ==
    /\ nout = <<>>
    /\ nout' = <<NormOf(nin)>>
    /\ UNCHANGED nin
    /\ UNCHANGED <<brandVars, pipeVars, splitVars>>

\* norm(norm(x))
NormAgain ==
    /\ Len(nout) = 1
    /\ nout' = Append(nout, NormOf(Txt(nout[1])))
    /\ UNCHANGED nin
    /\ UNCHANGED <<brandVars, pipeVars, splitVars>>

NextNorm == NormApply \/ NormAgain

SpecNorm == InitNorm /\ [][NextNorm]_vars

\* ---- properties of norm, under SpecNorm ----

Replace(x, i, c) == SubSeq(x, 1, i - 1) \o c \o SubSeq(x, i + 1, Len(x))

SwapCase(c) == IF InStr(c, UpperChars) THEN Casefold(c) ELSE Upper(c)

SwapAccent(c) == IF c = EACUTE THEN "e" ELSE IF c = "e" THEN EACUTE ELSE c

IsPunct(c) == InStr(c, PunctChars)

\* the texts that differ from x by the case of one letter
CaseVariants(x) == {Replace(x, i, SwapCase(Ch(x, i))) : i \in 1..Len(x)}

\* by one trademark sign more or less
GlyphVariants(x) ==
    {SubSeq(x, 1, i) \o TM \o SubSeq(x, i + 1, Len(x)) : i \in 0..Len(x)}
    \cup {Replace(x, i, "") : i \in {j \in 1..Len(x) : Ch(x, j) = TM}}

\* by the accent of one letter
AccentVariants(x) == {Replace(x, i, SwapAccent(Ch(x, i))) : i \in 1..Len(x)}

\* by one whitespace character repeated
SpaceVariants(x) ==
    {Replace(x, i, Ch(x, i) \o Ch(x, i)) : i \in {j \in 1..Len(x) : IsSpace(Ch(x, j))}}

\* by one punctuation mark exchanged for another mark or for a space
PunctSwapVariants(x) ==
    {Replace(x, i, c) : i \in {j \in 1..Len(x) : IsPunct(Ch(x, j))}, c \in {"-", ".", "/", " "}}

\* by one punctuation mark more or less
PunctDropVariants(x) ==
    {Replace(x, i, "") : i \in {j \in 1..Len(x) : IsPunct(Ch(x, j))}}
    \cup {SubSeq(x, 1, i) \o "-" \o SubSeq(x, i + 1, Len(x)) : i \in 0..Len(x)}

\* the text norm works on
NormText == IF nin = PyNone THEN "" ELSE CellText(nin)

\* norm is total, gives "" for None, and is idempotent
TotalAndIdempotent ==
    /\ Len(nout) >= 1 /\ nin = PyNone => nout[1] = ""
    /\ Len(nout) = 2 => nout[2] = nout[1]

SameNorm(variants) == \A y \in variants : norm(y) = nout[1]

-----------------------------------------------------------------------------
(* Reference tables with several rows under one key, under Spec            *)

MinOf(S) == CHOOSE x \in S : \A y \in S : x <= y

\* several reference rows match the record under one of the stage's key-sets
Several(c) ==
    \E p \in 1..Len(StageJoin.precedence) :
        Cardinality(MatchSet(c, StageJoin.table, StageJoin.precedence[p])) >= 2

\* the value a blank target takes when every key-set, tried in order from p,
\* fills it from the first reference row, in table order, that matches
RECURSIVE FirstRowValue(_, _, _)
FirstRowValue(c, src, p) ==
    IF p > Len(StageJoin.precedence) THEN ""
    ELSE LET M == MatchSet(c, StageJoin.table, StageJoin.precedence[p])
         IN  IF M # {} /\ ~Blank(StageJoin.table[MinOf(M)][src])
             THEN StageJoin.table[MinOf(M)][src]
             ELSE FirstRowValue(c, src, p + 1)

BlankBefore(row, dst) == dst \notin DOMAIN Before(row) \/ Blank(Before(row)[dst])

\* every blank target of every record holds the first matching row's value
FirstRowFills ==
    \A i \in 1..Len(df) : \A o \in 1..Len(StageJoin.outputs) :
        LET x == FirstRowValue(df[i].cells, StageJoin.outputs[o][1], 1)
        IN  BlankBefore(df[i], StageJoin.outputs[o][2]) /\ x # ""
                => df[i].cells[StageJoin.outputs[o][2]] = x

\* cbht_join raised on a batch with a record that several rows of cbht.csv match
CbhtRaisedOnSeveral ==
    /\ stage = "aborted"
    /\ ref.cbht # <<>>
    /\ \E i \in 1..Len(df) : \E p \in 1..Len(CbhtPairs) :
        Cardinality(MatchSet(df[i].cells, NormaliseRef(ref.cbht, CbRefCols), CbhtPairs[p])) >= 2

\* C20: when several reference rows match a record under the same key-set, the
\* stage completes, the record's target is filled from the first matching row
\* in table order, and the other records are filled as if the table held only
\* each key's first row.
C20_FirstMatchingRowFills ==
    /\ stage \in {"brands", "vendors", "cbht"} /\ (\E i \in 1..Len(df) : Several(df[i].cells))
        => FirstRowFills
    /\ ~CbhtRaisedOnSeveral

-----------------------------------------------------------------------------
(* Pass A: the recorded reason against the tier that supplied the value    *)

\* the key Pass A would find under the record's own market
ScopedEntry ==
    /\ norm(res.Market) # ""
    /\ IdxHas(idx, norm(res.Market), norm(res.Brand_raw))

\* the key Pass A would find among the global entries
GlobalEntry == IdxHas(idx, None, norm(res.Brand_raw))

\* 'tax_exact_local' names an entry scoped to the record's market
LocalReasonIsScoped ==
    res.Reason_tax = "tax_exact_local" =>
        /\ ScopedEntry
        /\ res.Brand_taxonomy = IdxGet(idx, norm(res.Market), norm(res.Brand_raw))

\* a value taken from a global entry is recorded as 'tax_exact_global'
GlobalReasonIsGlobal ==
    /\ ~ScopedEntry /\ GlobalEntry =>
        /\ res.Reason_tax = "tax_exact_global"
        /\ res.Brand_taxonomy = IdxGet(idx, None, norm(res.Brand_raw))
    /\ res.Reason_tax = "tax_exact_global" => ~ScopedEntry /\ GlobalEntry

\* 'tax_canonical_equal' names the fallback, used after both lookups missed
CanonicalReasonIsFallback ==
    res.Reason_tax = "tax_canonical_equal" =>
        /\ ~ScopedEntry /\ ~GlobalEntry
        /\ \E i \in 1..Len(canon_list) :
            /\ norm(canon_list[i]) = norm(res.Brand_raw)
            /\ res.Brand_taxonomy = canon_list[i]

\* the reason is blank exactly when Pass A found no value
BlankReasonIffNoValue ==
    /\ res.Reason_tax \in {"", "tax_exact_local", "tax_exact_global", "tax_canonical_equal"}
    /\ res.Reason_tax = "" <=> res.Brand_taxonomy = ""

\* C21: Pass A tries the market-scoped entry, then the global entry, then
\* equality with a canonical name, and Reason_tax names the tier used:
\* 'tax_exact_local' only for an entry scoped to the record's market,
\* 'tax_exact_global' for a global entry (also for a record whose market is
\* blank), 'tax_canonical_equal' for the fallback, blank exactly when no value
\* was found.
C21_ReasonNamesTier ==
    bpc = "row" =>
        /\ ScopedEntry => res.Reason_tax = "tax_exact_local"
        /\ LocalReasonIsScoped
        /\ GlobalReasonIsGlobal
        /\ CanonicalReasonIsFallback
        /\ BlankReasonIffNoValue

-----------------------------------------------------------------------------
(* Pass B: the brand read from the titles against the set of brands hit    *)

\* the normalised titles of the record in res
TitleText == norm(res.PlanName \o " " \o res.CampaignName)

\* a normalised name or alias counts when it has MinHitLen characters or more
\* and occurs in the normalised titles
Counts(n) == Len(n) >= MinHitLen /\ Contains(n, TitleText)

\* the aliases a record of res.Market can use: those of its market and the
\* global ones
UsableAliases ==
    {idx[k].alias : k \in {j \in 1..Len(idx) : idx[j].mk \in {norm(res.Market), None}}}

\* the brand an alias stands for on a record of res.Market: the market's own
\* entry when there is one, the global entry otherwise
BrandOfAlias(a) ==
    IF norm(res.Market) # "" /\ IdxHas(idx, norm(res.Market), a)
    THEN IdxGet(idx, norm(res.Market), a)
    ELSE IdxGet(idx, None, a)

\* the distinct canonical brands hit in the titles
NameBrands  == {canon_list[i] : i \in {j \in 1..Len(canon_list) : Counts(norm(canon_list[j]))}}
AliasBrands == {BrandOfAlias(a) : a \in {x \in UsableAliases : Counts(x)}}
TitleBrands == NameBrands \cup AliasBrands

\* every name and alias that occurs in the titles is shorter than MinHitLen
OnlyShortNamesInTitles ==
    /\ \A i \in 1..Len(canon_list) :
        Contains(norm(canon_list[i]), TitleText) => Len(norm(canon_list[i])) < MinHitLen
    /\ \A a \in UsableAliases : Contains(a, TitleText) => Len(a) < MinHitLen

\* C22: detect_from_titles collects the distinct canonical brands hit by
\* names and aliases of at least 4 normalised characters contained in the
\* normalised titles: no hit gives no brand; one distinct brand gives that
\* brand with a title-contains reason; two or more give one with the longest
\* canonical-name string and the reason title_ambiguous; a name or alias
\* shorter than 4 normalised characters never produces a hit.
C22_TitleDetection ==
    bpc = "row" =>
        /\ TitleBrands = {} => res.Brand_title = "" /\ res.Reason_title = ""
        /\ Cardinality(TitleBrands) = 1 =>
            /\ res.Brand_title \in TitleBrands
            /\ res.Reason_title =
                 (IF res.Brand_title \in NameBrands THEN "title_contains_canon"
                  ELSE "title_contains_alias")
        /\ Cardinality(TitleBrands) >= 2 =>
            /\ res.Brand_title \in TitleBrands
            /\ \A c \in TitleBrands : Len(c) <= Len(res.Brand_title)
            /\ res.Reason_title = "title_ambiguous"
        /\ OnlyShortNamesInTitles => res.Brand_title = ""

\* two brands are hit, the shorter one first in canon_list order, and the
\* longer one is returned as ambiguous
C22_Witness ==
    /\ bpc = "row"
    /\ Cardinality(TitleBrands) = 2
    /\ \E i, j \in 1..Len(canon_list) :
        /\ i < j
        /\ {canon_list[i], canon_list[j]} = TitleBrands
        /\ Len(canon_list[i]) < Len(canon_list[j])
        /\ res.Brand_title = canon_list[j]
    /\ res.Reason_title = "title_ambiguous"

-----------------------------------------------------------------------------
(* The budgets expander: the fiscal-year fallback                          *)

\* the days of year y
DaysOfYear(y) == IF IsLeap(y) THEN 366 ELSE 365

\* C23: in the budgets expander a record with a missing or unparseable start
\* or end date and a parseable fiscal year Y is expanded over 1 January Y to
\* 31 December Y inclusive: one row per day of Y (365, or 366 in a leap year),
\* each carrying parsed_value / n, and no row with a null date.
C23_FiscalYearFallback ==
    IsBudgets =>
        \A k \in 1..Len(sdf) :
            LET cells == sdf[k].cells
                y     == FallbackYear(cells)
                n     == DaysOfYear(y)
                rows  == Emitted(k)
            IN  Done(k) /\ ~BothParsed(cells) /\ y # NoYear =>
                    /\ Len(rows) = n
                    /\ rows[1].cells["Date"] = Timestamp(y, 1, 1)
                    /\ rows[n].cells["Date"] = Timestamp(y, 12, 31)
                    /\ \A i \in 1..Len(rows) :
                        /\ rows[i].cells["Date"] # NaTs
                        /\ rows[i].cells["Date"] = Ts(Ordinal(y, 1, 1) + i - 1, 0)
                        /\ \A c \in Prorated :
                            IF parse_number(cells[c]) = PyNone
                            THEN IsZero(rows[i].cells[c])
                            ELSE NumEq(rows[i].cells[c], NumDiv(parse_number(cells[c]), n))

\* a sheet with a record of fiscal year 2024 and one of fiscal year 2023, both
\* without a start date: 366 rows of -732/366 and 365 rows of 730/365
C23_Witness ==
    /\ IsBudgets
    /\ PLANNED_COL \in Prorated
    /\ \E k, l \in 1..Len(sdf) :
        /\ Done(k) /\ Done(l)
        /\ sdf[k].cells = BudgetYear
        /\ sdf[l].cells = BudgetFiscal
        /\ Len(Emitted(k)) = 366
        /\ Len(Emitted(l)) = 365
        /\ \A i \in 1..366 : NumEq(Emitted(k)[i].cells[PLANNED_COL], Num(0 - 2, 1))
        /\ \A i \in 1..365 : NumEq(Emitted(l)[i].cells[PLANNED_COL], Num(2, 1))
        /\ Emitted(l)[365].cells["Date"] = Timestamp(2023, 12, 31)

-----------------------------------------------------------------------------
(* The mapping stages as steps: what a stage may change                    *)

\* the second components of a sequence of <<source, target>> pairs
TargetsOf(outputs) == {outputs[o][2] : o \in 1..Len(outputs)}

\* the target fields of the mapping stage that runs from the current stage, and
\* no field when the next stage is not a mapping stage
MappingTargets ==
    IF stage = "defaults" THEN TargetsOf(Rules.brand_mapping.outputs)
    ELSE IF stage = "brands" THEN TargetsOf(VendorOutputs)
    ELSE IF stage = "vendors" THEN TargetsOf(ChanOutputs)
    ELSE IF stage = "channels" THEN TargetsOf(Rules.campaign_mapping.outputs)
    ELSE IF stage = "fx" THEN {"CBHT_Brand_League"}
    ELSE {}

\* a mapping stage is the next to run
MappingNext == stage \in {"defaults", "brands", "vendors", "channels", "fx"}

\* the stage returns: it does not raise
StageReturns == stage' # "aborted"

\* the same records, as many and in the same order
SameRecords ==
    /\ Len(df') = Len(df)
    /\ \A i \in 1..Len(df) : df'[i].label = df[i].label

\* every column of the input keeps its value, except targets that were blank
ColumnsKept ==
    Len(df') = Len(df) =>
        \A i \in 1..Len(df) : \A c \in DOMAIN df[i].cells :
            /\ c \in DOMAIN df'[i].cells
            /\ \/ df'[i].cells[c] = df[i].cells[c]
               \/ c \in MappingTargets /\ Blank(df[i].cells[c])

\* the frame the caller passed is what it was, and so is every table already read
InputsIntact ==
    /\ prev' = df
    /\ \A t \in DOMAIN ref : ref[t] # <<>> => ref'[t] = ref[t]

\* C24: each mapping stage (brands_map, vendors_map, channels_map,
\* campaigns_map, cbht_join) returns exactly the input records, same count and
\* same order, whatever the reference table contains; every column of the
\* input keeps its value on every record except target fields that were
\* blank; the caller's frame and the reference table are not modified.
C24_MappingStagesKeepRecords ==
    [][MappingNext => StageReturns /\ SameRecords /\ ColumnsKept /\ InputsIntact]_vars

-----------------------------------------------------------------------------
(* two_pass_brand: the issue codes                                         *)

IssueCodes ==
    {"brand_conflict_title", "brand_inferred_from_title", "brand_ok_no_title_signal",
     "brand_unmapped"}

\* both passes produced a value, and the same one
PassesAgree == res.Brand_taxonomy # "" /\ res.Brand_taxonomy = res.Brand_title

\* C25: every record receives exactly one of the four issue codes or none, and
\* none if and only if both passes produced the same value; an inference
\* tagged title_ambiguous is treated like a confident one: it becomes the final
\* brand when Pass A found nothing, and raises a conflict when it differs from
\* the Pass A value.
C25_IssueCodes ==
    bpc = "row" =>
        /\ res.Issue \in IssueCodes \cup {""}
        /\ res.Issue = "" <=> PassesAgree
        /\ res.Reason_title = "title_ambiguous" =>
            /\ res.Brand_title # ""
            /\ res.Brand_taxonomy = "" =>
                (res.Brand_final = res.Brand_title /\ res.Issue = "brand_inferred_from_title")
            /\ (res.Brand_taxonomy # "" /\ res.Brand_taxonomy # res.Brand_title) =>
                (res.Issue = "brand_conflict_title" /\ res.Brand_final = res.Brand_taxonomy)

\* a record whose raw brand is not in the table and whose titles hit two
\* brands: the ambiguous inference is the final brand
C25_Witness ==
    /\ bpc = "row"
    /\ res.Brand_raw = "Nope"
    /\ res.Brand_taxonomy = ""
    /\ res.Reason_title = "title_ambiguous"
    /\ res.Brand_title # ""
    /\ res.Brand_final = res.Brand_title
    /\ res.Issue = "brand_inferred_from_title"

=============================================================================
